---- MODULE Spec2Model ----
(***************************************************************************)
(* RAN Insight Pro: the KPI analysis pipeline of backend/app/services.     *)
(*                                                                         *)
(*   KPIParser.parse_csv            raw CSV  -> cleaned panel + metadata   *)
(*   AnomalyDetector.detect_anomalies     panel -> five anomaly reports    *)
(*   CorrelationEngine.analyze_correlations  panel -> correlation results  *)
(*                                                                         *)
(* Numbers.  KPI values are kept in fixed point: an integer v stands for   *)
(* v / Unit.  The CSV files of the tests carry one decimal digit, and the  *)
(* median of an even number of such cells needs one more binary digit, so  *)
(* Unit = 20.  Means, standard deviations and Pearson coefficients are     *)
(* never rounded: every comparison the code makes on them is decided in    *)
(* exact integer arithmetic on sums of squares (the float rounding of      *)
(* numpy is abstracted to exact reals).  NaN / NaT / None are sentinels.   *)
(***************************************************************************)
EXTENDS Integers, Sequences, FiniteSets, TLC

VARIABLES
    scipyAvailable,  \* correlation.py: SCIPY_AVAILABLE, fixed at import
    pc,              \* position of the request: "idle", "parsed", "rejected", "framed",
                     \* or "compared", "assessed", "scored", "deviated", "baselined"
                     \* (compare.py), "processing", "analyzed" (analyze.py)
    csv,             \* the raw CSV handed to parse_csv (NoCsv for a direct frame)
    panel,           \* the DataFrame the analyses run on
    metadata,        \* second component of parse_csv's result
    parseError,      \* the exception parse_csv raised, or NoError
    anomalies,       \* result of detect_anomalies, or NotRun
    correlations,    \* results dict of analyze_correlations, or NotRun
    corrOutcome,     \* "none", "returned" or the exception raised
    comparison,      \* the call made into compare.py and what it gave, or NotRun
    db,              \* the database: the uploads and analysis_results tables
    analysis         \* the POST /analyze request and what it gave, or NotRun

vars == <<scipyAvailable, pc, csv, panel, metadata, parseError,
          anomalies, correlations, corrOutcome, comparison, db, analysis>>

----------------------------------------------------------------------------
(* Sentinels and fixed point                                               *)

Unit == 2 * 10

NaN == -999999      \* numpy.nan in a float column
NaT == -999998      \* pandas.NaT in the TIME column
TEXT == -999997     \* a CSV cell that is not a number (kept as str by read_csv)
BLANK == NaN        \* an empty CSV cell: read_csv yields NaN

Whole(x) == x * Unit
Tenths(x) == x * 2

Metrics == {"RTWP", "SINR", "PRB"}
required_columns == <<"RTWP", "SINR", "PRB">>

Abs(x) == IF x < 0 THEN -x ELSE x
Min2(a, b) == IF a < b THEN a ELSE b
Max2(a, b) == IF a > b THEN a ELSE b

RECURSIVE Gcd(_, _)
Gcd(a, b) == IF b = 0 THEN a ELSE Gcd(b, a % b)

RECURSIVE SumSeq(_)
SumSeq(s) == IF s = <<>> THEN 0 ELSE Head(s) + SumSeq(Tail(s))

RECURSIVE GcdSeq(_)
GcdSeq(s) == IF s = <<>> THEN 0 ELSE Gcd(Abs(Head(s)), GcdSeq(Tail(s)))

Range(s) == {s[i] : i \in 1..Len(s)}

\* df[c] as a sequence, in row order
Col(rows, c) == [i \in 1..Len(rows) |-> rows[i][c]]

\* Series.dropna()
Valid(s) == SelectSeq(s, LAMBDA x : x # NaN)

----------------------------------------------------------------------------
(* pandas / numpy statistics, decided exactly                              *)
(*                                                                         *)
(* For a series with valid (non-NaN) values v_1..v_m put z_i = (v_i -      *)
(* v_1) / g with g the gcd of the differences; mean and std are invariant  *)
(* under the shift and scale with g, so every comparison below is the      *)
(* comparison the code makes.  With S = sum z, Q = sum z^2 and             *)
(* V = m*Q - S*S:   mean = v_1 + g*S/m,   std^2 = g^2 * V / (m*(m-1))      *)
(* (Series.std uses ddof = 1, so std is NaN for m < 2).                    *)

RECURSIVE InsertSorted(_, _)
InsertSorted(x, s) ==
    IF s = <<>> THEN <<x>>
    ELSE IF x < Head(s) THEN <<x>> \o s
    ELSE <<Head(s)>> \o InsertSorted(x, Tail(s))

RECURSIVE SortInts(_)
SortInts(s) == IF s = <<>> THEN <<>> ELSE InsertSorted(Head(s), SortInts(Tail(s)))

\* Series.median(): NaN skipped; NaN for an all-NaN or empty series
MedianSorted(v) ==
    IF Len(v) = 0 THEN NaN
    ELSE IF Len(v) % 2 = 1 THEN v[(Len(v) + 1) \div 2]
    ELSE (v[Len(v) \div 2] + v[Len(v) \div 2 + 1]) \div 2
Median(s) == MedianSorted(SortInts(Valid(s)))

\* Series.fillna(value)
FillNa(x, value) == IF x = NaN THEN value ELSE x

(* TLC evaluates a LET definition anew at every use but an operator        *)
(* argument once; the helpers below therefore take their intermediate      *)
(* values as arguments.                                                    *)
NonZero(g) == IF g = 0 THEN 1 ELSE g
Scale(v) == NonZero(GcdSeq([i \in 1..Len(v) |-> v[i] - v[1]]))
Scaled(v, g) == [i \in 1..Len(v) |-> (v[i] - v[1]) \div g]
ZSeq(v) == Scaled(v, Scale(v))
SumSq(z) == SumSeq([i \in 1..Len(z) |-> z[i] * z[i]])
SumProd(y, z) == SumSeq([i \in 1..Len(z) |-> y[i] * z[i]])
\* m * sum(z^2) - sum(z)^2
Spread(z, sum) == Len(z) * SumSq(z) - sum * sum
\* m * (m-1) * std^2 / g^2
VarOfZ(z) == Spread(z, SumSeq(z))
VarNum(v) == VarOfZ(ZSeq(v))

\* Series.std() > 0
StdPositiveValid(v) == Len(v) >= 2 /\ VarNum(v) > 0
StdPositive(s) == StdPositiveValid(Valid(s))

\* Values the code only reports (never compares again) are kept as fractions.
NaNFrac == [nan |-> TRUE, num |-> 0, den |-> 1]
\* Series.mean()
MeanOfValid(v) ==
    IF Len(v) = 0 THEN NaNFrac ELSE [nan |-> FALSE, num |-> SumSeq(v), den |-> Len(v)]
MeanOf(s) == MeanOfValid(Valid(s))
\* Series.std(): scale * sqrt(num / den)
StdOfValid(v) ==
    IF Len(v) < 2 THEN [nan |-> TRUE, scale |-> 1, num |-> 0, den |-> 1]
    ELSE [nan |-> FALSE, scale |-> Scale(v), num |-> VarNum(v), den |-> Len(v) * (Len(v) - 1)]
StdOf(s) == StdOfValid(Valid(s))

(* Products of sums of squares exceed the 32-bit integers of TLC, so the    *)
(* two sides of a comparison are formed as naturals in base 10^4, least    *)
(* significant limb first.                                                 *)
Base == 10000

RECURSIVE BigOf(_)
BigOf(n) == IF n < Base THEN <<n>> ELSE <<n % Base>> \o BigOf(n \div Base)

LimbOf(A) == IF A = <<>> THEN 0 ELSE Head(A)
RestOf(A) == IF A = <<>> THEN <<>> ELSE Tail(A)

RECURSIVE BigAdd(_, _, _)
BigAdd(A, B, carry) ==
    IF A = <<>> /\ B = <<>> THEN (IF carry = 0 THEN <<>> ELSE <<carry>>)
    ELSE <<(LimbOf(A) + LimbOf(B) + carry) % Base>>
         \o BigAdd(RestOf(A), RestOf(B), (LimbOf(A) + LimbOf(B) + carry) \div Base)

RECURSIVE BigMulLimb(_, _, _)
BigMulLimb(A, k, carry) ==
    IF A = <<>> THEN (IF carry = 0 THEN <<>> ELSE <<carry>>)
    ELSE <<(Head(A) * k + carry) % Base>>
         \o BigMulLimb(Tail(A), k, (Head(A) * k + carry) \div Base)

RECURSIVE BigMul(_, _)
BigMul(A, B) ==
    IF B = <<>> THEN <<>>
    ELSE BigAdd(BigMulLimb(A, Head(B), 0), <<0>> \o BigMul(A, Tail(B)), 0)

\* the product of a sequence of naturals
RECURSIVE BigProd(_)
BigProd(s) == IF s = <<>> THEN <<1>> ELSE BigMul(BigOf(Head(s)), BigProd(Tail(s)))

RECURSIVE BigTrim(_)
BigTrim(A) == IF A # <<>> /\ A[Len(A)] = 0 THEN BigTrim(SubSeq(A, 1, Len(A) - 1)) ELSE A

RECURSIVE BigGreaterFrom(_, _, _)
BigGreaterFrom(A, B, i) ==
    IF i = 0 THEN FALSE
    ELSE IF A[i] # B[i] THEN A[i] > B[i]
    ELSE BigGreaterFrom(A, B, i - 1)

BigGreaterTrimmed(a, b) ==
    IF Len(a) # Len(b) THEN Len(a) > Len(b) ELSE BigGreaterFrom(a, b, Len(a))
BigGreater(A, B) == BigGreaterTrimmed(BigTrim(A), BigTrim(B))

\* the product of a sequence of naturals when it is below 2^31, else -1
MaxInt == 2147483647
RECURSIVE SmallProd(_, _)
SmallProd(s, acc) ==
    IF s = <<>> THEN acc
    ELSE IF Head(s) = 0 THEN 0
    ELSE IF acc > MaxInt \div Head(s) THEN -1
    ELSE SmallProd(Tail(s), acc * Head(s))

\* product of the naturals of s  >  product of the naturals of t
SmallOrBig(s, t, a, b) ==
    IF a >= 0 /\ b >= 0 THEN a > b ELSE BigGreater(BigProd(s), BigProd(t))
ProdGreater(s, t) == SmallOrBig(s, t, SmallProd(s, 1), SmallProd(t, 1))

\* abs(s - s.mean()) > (num/den) * s.std(), element by element (False on NaN)
\* |x - mean| > (num/den) * std for x = v_1 + g*zx, with m values, S = sum z
\* and V = m*sum(z^2) - S^2:  den^2 * (m-1) * (m*zx - S)^2 > num^2 * m * V
Deviates(d, m, V, num, den) ==
    ProdGreater(<<den * den * (m - 1), d, d>>, <<num * num * m, V>>)
ExceedsMask(s, first, g, m, S, V, num, den) ==
    [i \in 1..Len(s) |->
        /\ s[i] # NaN
        /\ m >= 2
        /\ Deviates(Abs(m * ((s[i] - first) \div g) - S), m, V, num, den)]
ExceedsZ(s, v, g, z, num, den) ==
    ExceedsMask(s, LimbOf(v), g, Len(v), SumSeq(z), VarOfZ(z), num, den)
ExceedsValid(s, v, g, num, den) == ExceedsZ(s, v, g, Scaled(v, g), num, den)
ExceedsStd(s, num, den) == ExceedsValid(s, Valid(s), Scale(Valid(s)), num, den)

\* Series.corr(other): Pearson r over the rows where both are valid, kept as
\* r = C / sqrt(Vx * Vy); NaN for fewer than two rows or a constant side.
NaNCorr == [nan |-> TRUE, C |-> 0, Vx |-> 1, Vy |-> 1]
ZeroCorr == [nan |-> FALSE, C |-> 0, Vx |-> 1, Vy |-> 1]

PearsonOf(C, Vx, Vy) ==
    IF Vx = 0 \/ Vy = 0 THEN NaNCorr ELSE [nan |-> FALSE, C |-> C, Vx |-> Vx, Vy |-> Vy]
PearsonZ(zx, zy, sx, sy) ==
    PearsonOf(Len(zx) * SumProd(zx, zy) - sx * sy, Spread(zx, sx), Spread(zy, sy))
PearsonScaled(zx, zy) == PearsonZ(zx, zy, SumSeq(zx), SumSeq(zy))
PearsonAt(a, b, idx) ==
    IF Len(idx) < 2 THEN NaNCorr
    ELSE PearsonScaled(ZSeq([k \in 1..Len(idx) |-> a[idx[k]]]),
                       ZSeq([k \in 1..Len(idx) |-> b[idx[k]]]))
Pearson(a, b) ==
    PearsonAt(a, b, SelectSeq([i \in 1..Len(a) |-> i], LAMBDA i : a[i] # NaN /\ b[i] # NaN))

\* abs(r) > p/q and abs(r) >= p/q for a coefficient that is not NaN
AbsGreater(r, p, q) == ProdGreater(<<q * q, Abs(r.C), Abs(r.C)>>, <<p * p, r.Vx, r.Vy>>)
AbsAtLeast(r, p, q) == ~ProdGreater(<<p * p, r.Vx, r.Vy>>, <<q * q, Abs(r.C), Abs(r.C)>>)
\* abs(r1) > abs(r2)
AbsExceeds(r1, r2) ==
    ProdGreater(<<Abs(r1.C), Abs(r1.C), r2.Vx, r2.Vy>>, <<Abs(r2.C), Abs(r2.C), r1.Vx, r1.Vy>>)

\* s[lo..hi] of a series (1-based, inclusive)
Window(s, lo, hi) == [k \in 1..(hi - lo + 1) |-> s[lo + k - 1]]

\* Series.rolling(window = w).corr(other): NaN until w rows are available
\* and wherever the window holds a NaN or a constant side
WindowCorr(wa, wb) ==
    IF NaN \in Range(wa) \/ NaN \in Range(wb) THEN NaNCorr ELSE Pearson(wa, wb)
RollingCorr(a, b, w) ==
    [i \in 1..Len(a) |->
        IF i < w THEN NaNCorr
        ELSE WindowCorr(Window(a, i - w + 1, i), Window(b, i - w + 1, i))]

\* df[mask].index.tolist() for a frame with the default RangeIndex
Flagged(mask) == SelectSeq([i \in 1..Len(mask) |-> i - 1], LAMBDA k : mask[k + 1])

----------------------------------------------------------------------------
(* AnomalyDetector  (app/services/anomaly.py)                              *)
(* A DataFrame is [cols: the column names, rows: the rows in order]; the   *)
(* field of an absent column is never read.  Index labels are 0..n-1.      *)

rtwp_std_multiplier == <<5, 2>>
sinr_std_multiplier == <<2, 1>>
prb_std_multiplier == <<2, 1>>
rtwp_absolute_max == -70
rtwp_absolute_min == -120
sinr_absolute_min == 0
prb_absolute_max == 100
prb_absolute_min == 0

\* the loop "for i, idx in enumerate(anomalies): if idx not in seen: ..."
RECURSIVE Dedup(_, _, _, _, _)
Dedup(anoms, types, i, uniq, utypes) ==
    IF i > Len(anoms) THEN [indices |-> uniq, types |-> utypes]
    ELSE IF anoms[i] \in Range(uniq)
         THEN Dedup(anoms, types, i + 1, uniq, utypes)
         ELSE Dedup(anoms, types, i + 1, Append(uniq, anoms[i]), Append(utypes, types[i]))

Tags(tag, n) == [i \in 1..n |-> tag]

Report(u, s) ==
    [count |-> Len(u.indices), indices |-> u.indices, types |-> u.types,
     mean |-> MeanOf(s), std |-> StdOf(s)]
\* a report built from the merged lists as they are, the duplicate-removing
\* loop left out
RawReport(anoms, types, s) == Report([indices |-> anoms, types |-> types], s)
UniqueReport(anoms, types, s) == Report(Dedup(anoms, types, 1, <<>>, <<>>), s)

\* the lists extended in the order high_absolute, low_absolute, statistical
MergedAbsoluteFirst(stat, high, low, s) ==
    UniqueReport(high \o low \o stat,
                 Tags("high_absolute", Len(high)) \o Tags("low_absolute", Len(low))
                     \o Tags("statistical", Len(stat)),
                 s)
\* the three detections of a column, merged in the order the code extends
\* its lists: statistical, then high_absolute, then low_absolute
Merged(stat, high, low, s) ==
    UniqueReport(stat \o high \o low,
                 Tags("statistical", Len(stat)) \o Tags("high_absolute", Len(high))
                     \o Tags("low_absolute", Len(low)),
                 s)

AbsentReport == [count |-> 0, indices |-> <<>>, types |-> <<>>]

\* comparisons with NaN are False
Above(s, bound) == [i \in 1..Len(s) |-> s[i] # NaN /\ s[i] > Whole(bound)]
Below(s, bound) == [i \in 1..Len(s) |-> s[i] # NaN /\ s[i] < Whole(bound)]

\* the absolute tests run before the statistical one
RtwpAbsoluteFirst(s) ==
    UniqueReport(Flagged(Above(s, rtwp_absolute_max)) \o Flagged(Below(s, rtwp_absolute_min))
                     \o Flagged(ExceedsStd(s, rtwp_std_multiplier[1], rtwp_std_multiplier[2])),
                 Tags("high_absolute", Len(Flagged(Above(s, rtwp_absolute_max))))
                     \o Tags("low_absolute", Len(Flagged(Below(s, rtwp_absolute_min))))
                     \o Tags("statistical",
                             Len(Flagged(ExceedsStd(s, rtwp_std_multiplier[1],
                                                    rtwp_std_multiplier[2])))),
                 s)
RtwpReport(s) ==
    Merged(Flagged(ExceedsStd(s, rtwp_std_multiplier[1], rtwp_std_multiplier[2])),
           Flagged(Above(s, rtwp_absolute_max)),
           Flagged(Below(s, rtwp_absolute_min)),
           s)

_detect_rtwp_anomalies(df) ==
    IF "RTWP" \notin df.cols THEN AbsentReport
    ELSE RtwpReport(Col(df.rows, "RTWP"))

\* SINR has no upper bound: nothing is tagged high_absolute
SinrReport(s) ==
    Merged(Flagged(ExceedsStd(s, sinr_std_multiplier[1], sinr_std_multiplier[2])),
           <<>>,
           Flagged(Below(s, sinr_absolute_min)),
           s)

_detect_sinr_anomalies(df) ==
    IF "SINR" \notin df.cols THEN AbsentReport
    ELSE SinrReport(Col(df.rows, "SINR"))

PrbReport(s) ==
    Merged(Flagged(ExceedsStd(s, prb_std_multiplier[1], prb_std_multiplier[2])),
           Flagged(Above(s, prb_absolute_max)),
           Flagged(Below(s, prb_absolute_min)),
           s)

_detect_prb_anomalies(df) ==
    IF "PRB" \notin df.cols THEN AbsentReport
    ELSE PrbReport(Col(df.rows, "PRB"))

InsufficientCorrelation ==
    [count |-> 0, description |-> "Insufficient data for correlation analysis"]

\* min(20, len(df) // 4)
AdaptiveWindow(n) == Min2(20, n \div 4)

\* (corr < -0.8) | (corr > 0.8), False where the rolling coefficient is NaN
StrongMask(rc) == [i \in 1..Len(rc) |-> ~rc[i].nan /\ AbsGreater(rc[i], 4, 5)]

\* the RTWP/PRB pair left out
SinrPairOnly(rtwp, sinr, prb, window_size) ==
    Range(Flagged(StrongMask(RollingCorr(rtwp, sinr, window_size))))
\* set(correlation_anomalies): the positions either pair flags
CorrelationFlagged(rtwp, sinr, prb, window_size) ==
    Range(Flagged(StrongMask(RollingCorr(rtwp, sinr, window_size))))
        \cup Range(Flagged(StrongMask(RollingCorr(rtwp, prb, window_size))))

CorrelationReport(flagged, rtwp, sinr, prb) ==
    [count |-> Cardinality(flagged), indices |-> flagged,
     rtwp_sinr_correlation |-> Pearson(rtwp, sinr),
     rtwp_prb_correlation |-> Pearson(rtwp, prb),
     sinr_prb_correlation |-> Pearson(sinr, prb)]

_detect_correlation_anomalies(df) ==
    IF ~(Metrics \subseteq df.cols) THEN InsufficientCorrelation
    ELSE IF AdaptiveWindow(Len(df.rows)) < 5 THEN InsufficientCorrelation
    ELSE CorrelationReport(
             CorrelationFlagged(Col(df.rows, "RTWP"), Col(df.rows, "SINR"),
                                Col(df.rows, "PRB"), AdaptiveWindow(Len(df.rows))),
             Col(df.rows, "RTWP"), Col(df.rows, "SINR"), Col(df.rows, "PRB"))

\* abs(rolling(5).mean() - rolling(15).mean()) > 2 * std, element by element:
\* |S5/5 - S15/15| > 2*std  <=>  (3*S5 - S15)^2 * m*(m-1) > 900 * VarNum
TrendDeviates(d, m, V) == ProdGreater(<<m * (m - 1), d, d>>, <<900, V>>)
TrendAt(z15, m, V) ==
    TrendDeviates(Abs(3 * SumSeq(Window(z15, 11, 15)) - SumSeq(z15)), m, V)
TrendMaskValid(s, first, g, m, V) ==
    [i \in 1..Len(s) |->
        /\ i >= 15
        /\ NaN \notin Range(Window(s, i - 14, i))
        /\ m >= 2
        /\ TrendAt([k \in 1..15 |-> (s[i - 15 + k] - first) \div g], m, V)]
\* the threshold taken as one standard deviation
TrendMaskOneSigma(s) ==
    [i \in 1..Len(s) |->
        /\ i >= 15
        /\ NaN \notin Range(Window(s, i - 14, i))
        /\ Len(Valid(s)) >= 2
        /\ ProdGreater(<<Len(Valid(s)) * (Len(Valid(s)) - 1),
                         Abs(3 * SumSeq(Window(ZSeq(s), i - 4, i))
                                 - SumSeq(Window(ZSeq(s), i - 14, i))),
                         Abs(3 * SumSeq(Window(ZSeq(s), i - 4, i))
                                 - SumSeq(Window(ZSeq(s), i - 14, i)))>>,
                       <<225, VarNum(Valid(s))>>)]
TrendMask(s) ==
    TrendMaskValid(s, LimbOf(Valid(s)), Scale(Valid(s)), Len(Valid(s)), VarNum(Valid(s)))

RECURSIVE TrendFlagged(_, _)
TrendFlagged(df, k) ==
    IF k > Len(required_columns) THEN {}
    ELSE (IF required_columns[k] \in df.cols
          THEN Range(Flagged(TrendMask(Col(df.rows, required_columns[k]))))
          ELSE {})
         \cup TrendFlagged(df, k + 1)

TrendReport(flagged) == [count |-> Cardinality(flagged), indices |-> flagged]

_detect_trend_anomalies(df) ==
    IF Len(df.rows) < 10
    THEN [count |-> 0, description |-> "Insufficient data for trend analysis"]
    ELSE TrendReport(TrendFlagged(df, 1))

\* the thresholds read as inclusive: 50 is already high, 20 already medium
SeverityInclusive(total_anomalies) ==
    IF total_anomalies >= 50 THEN "high"
    ELSE IF total_anomalies >= 20 THEN "medium" ELSE "low"
Severity(total_anomalies) ==
    IF total_anomalies > 50 THEN "high"
    ELSE IF total_anomalies > 20 THEN "medium" ELSE "low"

Summary(results, total_anomalies) ==
    [total_anomalies |-> total_anomalies,
     severity |-> Severity(total_anomalies),
     rtwp_anomaly_rate |-> results.rtwp_anomalies.count,
     sinr_anomaly_rate |-> results.sinr_anomalies.count,
     prb_anomaly_rate |-> results.prb_anomalies.count,
     correlation_issues |-> results.correlation_anomalies.count,
     trend_issues |-> results.trend_anomalies.count]

_generate_anomaly_summary(results) ==
    Summary(results,
            results.rtwp_anomalies.count + results.sinr_anomalies.count
                + results.prb_anomalies.count + results.correlation_anomalies.count
                + results.trend_anomalies.count)

WithSummary(results) == results @@ [summary |-> _generate_anomaly_summary(results)]

detect_anomalies(df) ==
    WithSummary([rtwp_anomalies |-> _detect_rtwp_anomalies(df),
                 sinr_anomalies |-> _detect_sinr_anomalies(df),
                 prb_anomalies |-> _detect_prb_anomalies(df),
                 correlation_anomalies |-> _detect_correlation_anomalies(df),
                 trend_anomalies |-> _detect_trend_anomalies(df)])

----------------------------------------------------------------------------
(* KPIParser  (app/services/parser.py)                                     *)
(*                                                                         *)
(* A raw CSV is [hdr, rows].  hdr gives, for each of the four data slots   *)
(* (the column carrying the time stamps and the three KPI columns), the    *)
(* header text as written in the file, or NoHeader when the file has no    *)
(* such column.  A header text is [name, pad, lower]: the upper-cased,     *)
(* trimmed name, whether the file surrounds it with blanks, and whether    *)
(* the file writes it in lower case.  A cell is a number, BLANK or TEXT;   *)
(* a time cell is a number of 15-minute slots since 2024-01-01 00:00:00,   *)
(* BLANK, or TEXT (a string that is not a date).                           *)

Slots == <<"TIME", "RTWP", "SINR", "PRB">>
NoHeader == [name |-> "", pad |-> FALSE, lower |-> FALSE]
Name(n) == [name |-> n, pad |-> FALSE, lower |-> FALSE]

time_columns == <<"TIME", "TIMESTAMP", "DATE", "DATETIME">>

\* str.strip() and str.upper() on one header
Unstripped(h) == h
Strip(h) == [h EXCEPT !.pad = FALSE]
Upper(h) == [h EXCEPT !.lower = FALSE]

\* df.rename(columns = column_mapping): exact match on the header text
column_mapping(h) ==
    IF h = Name("RTWP_DBM") THEN Name("RTWP")
    ELSE IF h = Name("SINR_DB") THEN Name("SINR")
    ELSE IF h \in {Name("PRB_UTILIZATION"), Name("PRB_UTIL"), Name("PRB_USAGE")}
         THEN Name("PRB")
    ELSE IF h \in {Name("TIMESTAMP"), Name("DATETIME"), Name("DATE")} THEN Name("TIME")
    ELSE h

\* the header row after _clean_headers, slot by slot
_clean_headers(hdr) ==
    [c \in DOMAIN hdr |-> IF hdr[c] = NoHeader THEN NoHeader
                          ELSE column_mapping(Upper(Strip(hdr[c])))]

\* "col in df.columns"
HasColumn(hdr, col) == \E c \in DOMAIN hdr : hdr[c] = Name(col)

\* the slot whose header is col (one at most)
SlotOf(hdr, col) == CHOOSE c \in DOMAIN hdr : hdr[c] = Name(col)

_validate_columns(hdr) ==
    SelectSeq(required_columns, LAMBDA col : ~HasColumn(hdr, col))

\* first name of time_columns found among the headers, "" when there is none
RECURSIVE FindTimeColumn(_, _)
FindTimeColumn(hdr, k) ==
    IF k > Len(time_columns) THEN ""
    ELSE IF HasColumn(hdr, time_columns[k]) THEN time_columns[k]
    ELSE FindTimeColumn(hdr, k + 1)

\* pd.to_datetime(cell, errors = 'coerce')
ToDatetime(cell) == IF cell \in {BLANK, TEXT} THEN NaT ELSE cell

\* the TIME column after _process_time_column: pd.date_range(start, periods,
\* freq = '15min') when no time column exists, the converted column otherwise
TimeColumn(hdr, rows, time_col) ==
    [i \in 1..Len(rows) |->
        IF time_col = "" THEN i - 1
        ELSE ToDatetime(rows[i][SlotOf(hdr, time_col)])]
_process_time_column(hdr, rows) == TimeColumn(hdr, rows, FindTimeColumn(hdr, 1))

\* the frame handed to _clean_data: KPI columns by name, TIME converted
FrameWith(time, rows, rtwp, sinr, prb) ==
    [i \in 1..Len(rows) |->
        [TIME |-> time[i], RTWP |-> rows[i][rtwp], SINR |-> rows[i][sinr],
         PRB |-> rows[i][prb]]]
FrameRows(hdr, rows) ==
    FrameWith(_process_time_column(hdr, rows), rows,
              SlotOf(hdr, "RTWP"), SlotOf(hdr, "SINR"), SlotOf(hdr, "PRB"))

\* read_csv keeps a column with a non-numeric cell as strings (dtype object)
ObjectColumns(rows) == {c \in Metrics : \E i \in 1..Len(rows) : rows[i][c] = TEXT}

\* df.dropna(how = 'all')
DropAllNa(rows) ==
    SelectSeq(rows, LAMBDA r : ~(r.TIME = NaT /\ \A c \in Metrics : r[c] = NaN))

\* one pass of the loop of _clean_data for column col: median fill, then the
\* 3-sigma trim when std > 0
FillWith(rows, col, median_val) ==
    [i \in 1..Len(rows) |-> [rows[i] EXCEPT ![col] = FillNa(rows[i][col], median_val)]]
FillColumn(rows, col) == FillWith(rows, col, Median(Col(rows, col)))

\* df[abs(df[col] - mean_val) <= 3 * std_val]: the rows that are kept
Rows(rows, keep) == [k \in 1..Len(keep) |-> rows[keep[k]]]
Within(s, out) == SelectSeq([i \in 1..Len(s) |-> i], LAMBDA i : s[i] # NaN /\ ~out[i])
TrimSeries(rows, s) ==
    IF StdPositive(s) THEN Rows(rows, Within(s, ExceedsStd(s, 3, 1))) ELSE rows
TrimColumn(rows, col) == TrimSeries(rows, Col(rows, col))

\* the first loop of _clean_data from column k on; median() of a column of
\* strings raises TypeError
RECURSIVE CleanLoop(_, _, _)
CleanLoop(rows, objcols, k) ==
    IF k > Len(required_columns) THEN [error |-> "", rows |-> rows]
    ELSE IF required_columns[k] \in objcols THEN [error |-> "TypeError", rows |-> rows]
    ELSE CleanLoop(TrimColumn(FillColumn(rows, required_columns[k]), required_columns[k]),
                   objcols, k + 1)

\* df.sort_values('TIME'): ascending, NaT last, ties in row order
TimeKey(r) == IF r.TIME = NaT THEN -NaT ELSE r.TIME

RECURSIVE InsertRow(_, _)
InsertRow(r, s) ==
    IF s = <<>> THEN <<r>>
    ELSE IF TimeKey(r) <= TimeKey(Head(s)) THEN <<r>> \o s
    ELSE <<Head(s)>> \o InsertRow(r, Tail(s))

RECURSIVE SortByTime(_)
SortByTime(rows) ==
    IF rows = <<>> THEN <<>> ELSE InsertRow(Head(rows), SortByTime(Tail(rows)))

Sorted(cleaned) ==
    IF cleaned.error # "" THEN cleaned ELSE [error |-> "", rows |-> SortByTime(cleaned.rows)]
_clean_data(rows) == Sorted(CleanLoop(DropAllNa(rows), ObjectColumns(rows), 1))

None == -999996

CountNa(s) == Len(SelectSeq(s, LAMBDA x : x = NaN))

\* Series.min() / Series.max() of the TIME column: NaT skipped
First(v) == IF v = <<>> THEN NaT ELSE v[1]
Last(v) == IF v = <<>> THEN NaT ELSE v[Len(v)]
TimeMin(t) == First(SortInts(SelectSeq(t, LAMBDA x : x # NaT)))
TimeMax(t) == Last(SortInts(SelectSeq(t, LAMBDA x : x # NaT)))

_generate_metadata(rows) ==
    [total_records |-> Len(rows),
     time_range |-> [start |-> IF rows # <<>> THEN TimeMin(Col(rows, "TIME")) ELSE None,
                     end   |-> IF rows # <<>> THEN TimeMax(Col(rows, "TIME")) ELSE None],
     data_quality |-> [rtwp_missing |-> CountNa(Col(rows, "RTWP")),
                       sinr_missing |-> CountNa(Col(rows, "SINR")),
                       prb_missing  |-> CountNa(Col(rows, "PRB"))],
     statistics |-> [rtwp_mean |-> MeanOf(Col(rows, "RTWP")),
                     sinr_mean |-> MeanOf(Col(rows, "SINR")),
                     prb_mean  |-> MeanOf(Col(rows, "PRB"))]]

NoFrame == [cols |-> {}, rows |-> <<>>]
NoMetadata == [total_records |-> None]
NoError == [type |-> "", missing |-> <<>>]

\* parse_csv: [error, df, metadata]; an error is what the call raises
Parsed(cleaned) ==
    IF cleaned.error # ""
    THEN [error |-> [type |-> cleaned.error, missing |-> <<>>],
          df |-> NoFrame, metadata |-> NoMetadata]
    ELSE [error |-> NoError,
          df |-> [cols |-> {"TIME"} \cup Metrics, rows |-> cleaned.rows],
          metadata |-> _generate_metadata(cleaned.rows)]

Validated(hdr, rows, missing_cols) ==
    IF missing_cols # <<>>
    THEN [error |-> [type |-> "ValueError", missing |-> missing_cols],
          df |-> NoFrame, metadata |-> NoMetadata]
    ELSE Parsed(_clean_data(FrameRows(hdr, rows)))

WithHeaders(hdr, rows) == Validated(hdr, rows, _validate_columns(hdr))

parse_csv(file) == WithHeaders(_clean_headers(file.hdr), file.rows)

----------------------------------------------------------------------------
(* CorrelationEngine  (app/services/correlation.py)                        *)

strong_positive == <<7, 10>>
moderate_positive == <<3, 10>>

AllPairs == << <<"RTWP", "SINR">>, <<"RTWP", "PRB">>, <<"SINR", "PRB">> >>
\* f"{col1}_{col2}"
PairKey(p) == IF p = <<"RTWP", "SINR">> THEN "RTWP_SINR"
              ELSE IF p = <<"RTWP", "PRB">> THEN "RTWP_PRB" ELSE "SINR_PRB"
\* the pairs (i < j) of the available KPI columns, in loop order
AvailablePairs(df) == SelectSeq(AllPairs, LAMBDA p : p[1] \in df.cols /\ p[2] \in df.cols)
PairKeys(df) == {PairKey(AvailablePairs(df)[k]) : k \in 1..Len(AvailablePairs(df))}
PairOf(key) == CHOOSE p \in Range(AllPairs) : PairKey(p) = key

\* the sign of the coefficient read the wrong way round
SignSwapped(r) ==
    IF r.nan THEN "no_correlation"
    ELSE IF AbsAtLeast(r, strong_positive[1], strong_positive[2])
         THEN (IF r.C < 0 THEN "strong_positive" ELSE "strong_negative")
    ELSE IF AbsAtLeast(r, moderate_positive[1], moderate_positive[2])
         THEN (IF r.C < 0 THEN "moderate_positive" ELSE "moderate_negative")
    ELSE "weak"
_classify_correlation_strength(r) ==
    IF r.nan THEN "no_correlation"
    ELSE IF AbsAtLeast(r, strong_positive[1], strong_positive[2])
         THEN (IF r.C > 0 THEN "strong_positive" ELSE "strong_negative")
    ELSE IF AbsAtLeast(r, moderate_positive[1], moderate_positive[2])
         THEN (IF r.C > 0 THEN "moderate_positive" ELSE "moderate_negative")
    ELSE "weak"

(* p-values are kept in hundredths.  Without scipy the code sets 0.05 or   *)
(* 0.1.  With scipy, stats.pearsonr is a library routine outside the       *)
(* repository: its p-value is an input of the model (exact[key], any of    *)
(* ExactPValues), NaN for a constant column; it raises ValueError when the *)
(* two dropna()'d columns differ in length or have fewer than two values.  *)
PNaN == -1
ExactPValues == {1, 50}

PearsonrRaises(a, b) ==
    Len(Valid(a)) # Len(Valid(b)) \/ Len(Valid(a)) < 2

PValue(scipy, exact, key, r) ==
    IF scipy THEN exact[key]
    ELSE (IF ~r.nan /\ AbsGreater(r, 3, 10) THEN 5 ELSE 10)

\* p_value < 0.05 (False for NaN)
Significance(p) == IF p # PNaN /\ p < 5 THEN "significant" ELSE "not_significant"

PairEntry(corr_coef, p_value) ==
    [correlation |-> IF corr_coef.nan THEN ZeroCorr ELSE corr_coef,
     p_value |-> IF p_value = PNaN THEN 100 ELSE p_value,
     strength |-> _classify_correlation_strength(corr_coef),
     significance |-> Significance(p_value)]

PairResult(scipy, exact, key, corr_coef) ==
    PairEntry(corr_coef, PValue(scipy, exact, key, corr_coef))

PairCorr(df, key) == Pearson(Col(df.rows, PairOf(key)[1]), Col(df.rows, PairOf(key)[2]))

_calculate_pairwise_correlations(df, scipy, exact) ==
    [key \in PairKeys(df) |-> PairResult(scipy, exact, key, PairCorr(df, key))]

\* the pairwise loop raises when scipy is used and pearsonr rejects a pair
PairwiseRaises(df, scipy) ==
    scipy /\ \E key \in PairKeys(df) :
                PearsonrRaises(Col(df.rows, PairOf(key)[1]), Col(df.rows, PairOf(key)[2]))

(* A rolling-correlation series is summarised (mean, std, min, max,        *)
(* stability) from its coefficients truncated to hundredths: Centi(r) is   *)
(* the integer c with |c|/100 <= |r| < (|c|+1)/100 and the sign of r.      *)
RECURSIVE CentiSearch(_, _, _)
CentiSearch(r, lo, hi) ==
    IF hi - lo <= 1 THEN lo
    ELSE IF ProdGreater(<<((lo + hi) \div 2) * ((lo + hi) \div 2), r.Vx, r.Vy>>,
                        <<10000, Abs(r.C), Abs(r.C)>>)
         THEN CentiSearch(r, lo, (lo + hi) \div 2)
         ELSE CentiSearch(r, (lo + hi) \div 2, hi)

Centi(r) == IF r.nan THEN NaN
            ELSE IF r.C < 0 THEN -CentiSearch(r, 0, 101) ELSE CentiSearch(r, 0, 101)
CentiSeq(rc) == [i \in 1..Len(rc) |-> Centi(rc[i])]

\* Series.min() / Series.max(), NaN skipped
Lowest(v) == IF v = <<>> THEN NaN ELSE v[1]
Highest(v) == IF v = <<>> THEN NaN ELSE v[Len(v)]
MinOf(s) == Lowest(SortInts(Valid(s)))
MaxOf(s) == Highest(SortInts(Valid(s)))

(* The stability score 1 / (1 + std/|mean|) is kept as [kind, std, mean]:  *)
(* kind "one" (empty series or std == 0), "zero" (mean == 0, cv infinite), *)
(* "nan" (std is NaN: fewer than two valid entries, mean not 0) or "ratio" *)
ScoreKind(rolling_corr, v) ==
    IF rolling_corr = <<>> THEN "one"
    ELSE IF Len(v) < 2 THEN (IF Len(v) = 1 /\ v[1] = 0 THEN "zero" ELSE "nan")
    ELSE IF VarNum(v) = 0 THEN "one"
    ELSE IF SumSeq(v) = 0 THEN "zero"
    ELSE "ratio"
ScoreOf(rolling_corr, v) ==
    [kind |-> ScoreKind(rolling_corr, v), std |-> StdOf(v), mean |-> MeanOf(v)]
_calculate_correlation_stability(rolling_corr) == ScoreOf(rolling_corr, Valid(rolling_corr))

\* stability_score >= p/q, i.e. std/|mean| <= (q-p)/p, for a "ratio" score:
\* std^2/mean^2 = scale^2 * num * m / ((m-1) * S^2) with mean = S/m
ScoreAtLeast(score, p, q) ==
    CASE score.kind = "one"  -> TRUE
      [] score.kind = "zero" -> FALSE
      [] score.kind = "nan"  -> FALSE
      [] OTHER ->
           ~ProdGreater(<<score.std.scale * score.std.scale, score.std.num, score.mean.den,
                          p * p>>,
                        <<score.std.den \div score.mean.den, Abs(score.mean.num),
                          Abs(score.mean.num), (q - p) * (q - p)>>)

_classify_stability(stability_score) ==
    IF ScoreAtLeast(stability_score, 8, 10) THEN "highly_stable"
    ELSE IF ScoreAtLeast(stability_score, 6, 10) THEN "moderately_stable"
    ELSE IF ScoreAtLeast(stability_score, 4, 10) THEN "somewhat_unstable"
    ELSE "highly_unstable"

\* rolling_correlations keys: f-strings are not used here, the code spells them
RollingKey(key) == IF key = "RTWP_SINR" THEN "rtwp_sinr"
                   ELSE IF key = "RTWP_PRB" THEN "rtwp_prb" ELSE "sinr_prb"

RollingOf(df, key, w) ==
    CentiSeq(RollingCorr(Col(df.rows, PairOf(key)[1]), Col(df.rows, PairOf(key)[2]), w))

RollingSummary(rolling) ==
    [mean |-> MeanOf(rolling), std |-> StdOf(rolling),
     min |-> MinOf(rolling), max |-> MaxOf(rolling),
     stability |-> _calculate_correlation_stability(rolling)]

UpperKey(k) == CHOOSE q \in {PairKey(p) : p \in Range(AllPairs)} : RollingKey(q) = k

_calculate_rolling_correlations(df) ==
    IF AdaptiveWindow(Len(df.rows)) < 5
    THEN [error |-> "Insufficient data for rolling correlation analysis"]
    ELSE [k \in {RollingKey(key) : key \in PairKeys(df)} |->
             RollingSummary(RollingOf(df, UpperKey(k), AdaptiveWindow(Len(df.rows))))]

StabilityEntry(stability) ==
    [stability_score |-> stability, stability_class |-> _classify_stability(stability)]

_analyze_correlation_stability(df) ==
    IF AdaptiveWindow(Len(df.rows)) < 5
    THEN [error |-> "Insufficient data for stability analysis"]
    ELSE [key \in PairKeys(df) |->
             StabilityEntry(_calculate_correlation_stability(
                 RollingOf(df, key, AdaptiveWindow(Len(df.rows)))))]

\* Series.shift(-k) for k >= 0: position t takes the value of position t + k
ShiftBack(s, k) == [t \in 1..Len(s) |-> IF t + k <= Len(s) THEN s[t + k] ELSE NaN]

\* the coefficient computed for one lag
LagCorr(rtwp, sinr, lag) ==
    IF lag > 0 THEN Pearson(ShiftBack(rtwp, lag), sinr)
    ELSE Pearson(rtwp, ShiftBack(sinr, -lag))

\* the first key stored, whatever its coefficient
FirstLag(lags) == CHOOSE b \in DOMAIN lags : \A l \in DOMAIN lags : b <= l
\* max(keys, key = abs(value)): the first key, in insertion order (ascending
\* lag), whose absolute coefficient no other key exceeds
BestLag(lags) ==
    CHOOSE b \in DOMAIN lags :
        /\ \A l \in DOMAIN lags : ~AbsExceeds(lags[l], lags[b])
        /\ \A l \in DOMAIN lags : l < b => AbsExceeds(lags[b], lags[l])

EmptyDict == [k \in {} |-> 0]

\* the lags whose coefficient is not NaN are the ones stored (line 173)
Recorded(all) == [lag \in {l \in DOMAIN all : ~all[l].nan} |-> all[lag]]

WithBest(rtwp_sinr_lags, best_lag) ==
    [rtwp_sinr |-> [lags |-> rtwp_sinr_lags, best_lag |-> best_lag,
                    max_correlation |-> rtwp_sinr_lags[best_lag]]]

CrossOf(rtwp_sinr_lags) ==
    IF DOMAIN rtwp_sinr_lags = {} THEN EmptyDict
    ELSE WithBest(rtwp_sinr_lags, BestLag(rtwp_sinr_lags))

CrossLags(rtwp, sinr, max_lag) ==
    CrossOf(Recorded([lag \in ((-max_lag)..max_lag) \ {0} |-> LagCorr(rtwp, sinr, lag)]))

_calculate_cross_correlations(df) ==
    IF ~({"RTWP", "SINR"} \subseteq df.cols) THEN EmptyDict
    ELSE CrossLags(Col(df.rows, "RTWP"), Col(df.rows, "SINR"), Min2(10, Len(df.rows) \div 4))

(* _generate_correlation_insights.  An insight is kept as the fields its   *)
(* text is formatted from.  The stability loop reads                       *)
(* data['stability_class'] of every value of the stability dict; the value *)
(* under 'error' is a str, and indexing a str with a str raises TypeError. *)
PairInsights(pairwise, k) ==
    LET key == PairKey(AllPairs[k])
    IN  IF key \notin DOMAIN pairwise THEN <<>>
        ELSE IF pairwise[key].significance # "significant" THEN <<>>
        ELSE IF pairwise[key].strength \in {"strong_positive", "strong_negative"}
             THEN << [kind |-> "Strong", pair |-> key, strength |-> pairwise[key].strength] >>
        ELSE IF pairwise[key].strength \in {"moderate_positive", "moderate_negative"}
             THEN << [kind |-> "Moderate", pair |-> key, strength |-> pairwise[key].strength] >>
        ELSE <<>>

StabilityInsights(stability, k) ==
    LET key == PairKey(AllPairs[k])
    IN  IF key \notin DOMAIN stability THEN <<>>
        ELSE IF stability[key].stability_class = "highly_unstable"
             THEN << [kind |-> "Highly unstable", pair |-> key, strength |-> ""] >>
        ELSE <<>>

CrossInsights(cross_corr) ==
    IF "rtwp_sinr" \notin DOMAIN cross_corr THEN <<>>
    ELSE IF AbsGreater(cross_corr.rtwp_sinr.max_correlation, 1, 2)
         THEN << [kind |-> "Strong cross-correlation", pair |-> "rtwp_sinr", strength |-> ""] >>
    ELSE <<>>

InsightsRaise(results) == "error" \in DOMAIN results.correlation_stability

_generate_correlation_insights(results) ==
    PairInsights(results.pairwise_correlations, 1)
        \o PairInsights(results.pairwise_correlations, 2)
        \o PairInsights(results.pairwise_correlations, 3)
        \o StabilityInsights(results.correlation_stability, 1)
        \o StabilityInsights(results.correlation_stability, 2)
        \o StabilityInsights(results.correlation_stability, 3)
        \o CrossInsights(results.cross_correlations)

NotRun == [status |-> "not run"]

\* the three entries of the results dict that do not involve the p-value
\* (lines 39-41)
WindowedResults(df) ==
    [rolling_correlations |-> _calculate_rolling_correlations(df),
     correlation_stability |-> _analyze_correlation_stability(df),
     cross_correlations |-> _calculate_cross_correlations(df)]

\* the body of analyze_correlations given those three entries: [outcome,
\* results]; outcome is "returned" or the exception that leaves the call (the
\* try block logs and re-raises), results is the dict as far as it was built
WithInsights(results) ==
    IF InsightsRaise(results) THEN [outcome |-> "TypeError", results |-> results]
    ELSE [outcome |-> "returned",
          results |-> [results EXCEPT !.insights = _generate_correlation_insights(results)]]

AnalyzeWith(df, scipy, exact, windowed) ==
    IF PairwiseRaises(df, scipy) THEN [outcome |-> "ValueError", results |-> NotRun]
    ELSE WithInsights([pairwise_correlations |-> _calculate_pairwise_correlations(df, scipy, exact),
                       rolling_correlations |-> windowed.rolling_correlations,
                       correlation_stability |-> windowed.correlation_stability,
                       cross_correlations |-> windowed.cross_correlations,
                       insights |-> <<>>])

analyze_correlations(df, scipy, exact) == AnalyzeWith(df, scipy, exact, WindowedResults(df))

----------------------------------------------------------------------------
(* Before/after comparison  (app/routers/compare.py)                       *)
(*                                                                         *)
(* A mean is the fraction MeanOf returns: num / (den * Unit), den > 0.     *)

FracIsZero(a) == ~a.nan /\ a.num = 0
\* a < b, False when either is NaN
FracLess(a, b) == ~a.nan /\ ~b.nan /\ a.num * b.den < b.num * a.den
\* lo <= a <= hi
FracWithin(a, lo, hi) ==
    ~a.nan /\ Whole(lo) * a.den <= a.num /\ a.num <= Whole(hi) * a.den

\* abs((after - before) / before * 100) < percent, for before != 0; False when
\* the quotient is NaN
ChangeBelow(before_value, after_value, percent) ==
    /\ ~before_value.nan /\ ~after_value.nan
    /\ 100 * Abs(after_value.num * before_value.den - before_value.num * after_value.den)
          < percent * Abs(before_value.num) * after_value.den

\* change_percent < 5, change_percent being 0 when before_value is 0
Unchanged5(before_value, after_value) ==
    IF FracIsZero(before_value) THEN TRUE
    ELSE ChangeBelow(before_value, after_value, 5)

\* every metric judged as SINR is: the higher the better
HigherIsBetter(metric, before_value, after_value) ==
    IF Unchanged5(before_value, after_value) THEN "stable"
    ELSE IF FracLess(before_value, after_value) THEN "improved" ELSE "degraded"
_assess_kpi_improvement(metric, before_value, after_value) ==
    IF Unchanged5(before_value, after_value) THEN "stable"
    ELSE CASE metric = "RTWP" ->
                  (IF FracLess(after_value, before_value) THEN "improved" ELSE "degraded")
           [] metric = "SINR" ->
                  (IF FracLess(before_value, after_value) THEN "improved" ELSE "degraded")
           [] metric = "PRB" ->
                  (IF FracWithin(after_value, 40, 80) THEN "improved"
                   ELSE IF FracWithin(before_value, 40, 80) THEN "degraded"
                   ELSE "stable")
           [] OTHER -> "stable"

severity_levels == [low |-> 1, medium |-> 2, high |-> 3]

_assess_severity_improvement(before_severity, after_severity) ==
    IF severity_levels[after_severity] < severity_levels[before_severity] THEN "improved"
    ELSE IF severity_levels[after_severity] > severity_levels[before_severity]
         THEN "degraded"
         ELSE "stable"

\* abs(after_corr - before_corr) against 0.1 and 0.3, on the coefficients
\* truncated to hundredths
_assess_correlation_stability_change(before_corr, after_corr) ==
    IF Abs(Centi(after_corr) - Centi(before_corr)) < 10 THEN "stable"
    ELSE IF Abs(Centi(after_corr) - Centi(before_corr)) < 30 THEN "moderate_change"
    ELSE "significant_change"

_generate_overall_assessment(anomaly_change, kpi_improvements) ==
    IF anomaly_change < -10 /\ kpi_improvements >= 2
    THEN "Significant improvement in network performance"
    ELSE IF anomaly_change < 0 /\ kpi_improvements >= 1
    THEN "Moderate improvement in network performance"
    ELSE IF anomaly_change = 0 /\ kpi_improvements = 0
    THEN "Network performance remained stable"
    ELSE IF anomaly_change > 0 /\ kpi_improvements = 0
    THEN "Network performance may have degraded"
    ELSE "Mixed results - some improvements and some degradations"

\* the metrics of kpi_comparison with a given verdict, in insertion order
WithVerdict(kpi_comparison, verdict) ==
    SelectSeq(required_columns,
              LAMBDA m : m \in DOMAIN kpi_comparison
                            /\ kpi_comparison[m].improvement = verdict)

_identify_key_improvements(kpi_comparison, anomaly_comparison) ==
    (IF anomaly_comparison.total_change < 0
     THEN << <<"Reduced anomalies by", -anomaly_comparison.total_change>> >>
     ELSE <<>>)
    \o [k \in 1..Len(WithVerdict(kpi_comparison, "improved")) |->
           <<WithVerdict(kpi_comparison, "improved")[k], "improved by">>]

_identify_areas_of_concern(kpi_comparison, anomaly_comparison) ==
    (IF anomaly_comparison.total_change > 0
     THEN << <<"Increased anomalies by", anomaly_comparison.total_change>> >>
     ELSE <<>>)
    \o [k \in 1..Len(WithVerdict(kpi_comparison, "degraded")) |->
           <<WithVerdict(kpi_comparison, "degraded")[k], "degraded by">>]

\* (after_mean - before_mean) / before_mean * 100 as a fraction num / den, 0
\* when before_mean is 0
ZeroPercent == [nan |-> FALSE, num |-> 0, den |-> 1]
PercentChange(before_mean, after_mean) ==
    IF FracIsZero(before_mean) THEN ZeroPercent
    ELSE IF before_mean.nan \/ after_mean.nan THEN [nan |-> TRUE, num |-> 0, den |-> 1]
    ELSE [nan |-> FALSE,
          num |-> 100 * (after_mean.num * before_mean.den
                            - before_mean.num * after_mean.den),
          den |-> before_mean.num * after_mean.den]

KpiEntry(metric, before_mean, after_mean, before_std, after_std) ==
    [before_mean |-> before_mean,
     after_mean |-> after_mean,
     mean_change_percent |-> PercentChange(before_mean, after_mean),
     before_std |-> before_std,
     after_std |-> after_std,
     improvement |-> _assess_kpi_improvement(metric, before_mean, after_mean)]

KpiComparison(before_df, after_df) ==
    [metric \in Metrics \cap before_df.cols \cap after_df.cols |->
        KpiEntry(metric,
                 MeanOf(Col(before_df.rows, metric)), MeanOf(Col(after_df.rows, metric)),
                 StdOf(Col(before_df.rows, metric)), StdOf(Col(after_df.rows, metric)))]

AnomalyComparison(before_summary, after_summary) ==
    [before_total |-> before_summary.total_anomalies,
     after_total |-> after_summary.total_anomalies,
     total_change |-> after_summary.total_anomalies - before_summary.total_anomalies,
     before_severity |-> before_summary.severity,
     after_severity |-> after_summary.severity,
     severity_improvement |->
         _assess_severity_improvement(before_summary.severity, after_summary.severity)]

CorrelationComparison(before_pairwise, after_pairwise) ==
    [pair \in DOMAIN before_pairwise \cap DOMAIN after_pairwise |->
        [before_correlation |-> before_pairwise[pair].correlation,
         after_correlation |-> after_pairwise[pair].correlation,
         stability_change |->
             _assess_correlation_stability_change(before_pairwise[pair].correlation,
                                                  after_pairwise[pair].correlation)]]

ComparisonSummary(kpi_comparison, anomaly_comparison) ==
    [overall_assessment |->
         _generate_overall_assessment(anomaly_comparison.total_change,
                                      Len(WithVerdict(kpi_comparison, "improved"))),
     key_improvements |-> _identify_key_improvements(kpi_comparison, anomaly_comparison),
     areas_of_concern |-> _identify_areas_of_concern(kpi_comparison, anomaly_comparison)]

ComparisonResults(kpi_comparison, anomaly_comparison, correlation_comparison) ==
    [kpi_comparison |-> kpi_comparison,
     anomaly_comparison |-> anomaly_comparison,
     correlation_comparison |-> correlation_comparison,
     total_anomalies_change |-> anomaly_comparison.total_change,
     summary |-> ComparisonSummary(kpi_comparison, anomaly_comparison)]

_calculate_comparison_metrics(before_df, after_df, before_anomalies, after_anomalies, before_correlations, after_correlations) ==
    ComparisonResults(KpiComparison(before_df, after_df),
                      AnomalyComparison(before_anomalies.summary, after_anomalies.summary),
                      CorrelationComparison(before_correlations.pairwise_correlations,
                                            after_correlations.pairwise_correlations))

\* normalized_score >= 80 / 60 / 40
ImprovementLevel(normalized_score) ==
    IF normalized_score >= 80 THEN "significant"
    ELSE IF normalized_score >= 60 THEN "moderate"
    ELSE IF normalized_score >= 40 THEN "minimal"
    ELSE "degraded"

\* number of improved metrics minus number of degraded ones
NetImprovements(kpi_comparison) ==
    Len(WithVerdict(kpi_comparison, "improved"))
        - Len(WithVerdict(kpi_comparison, "degraded"))

\* (kpi_improvements / total_kpis) * 60, skipped when kpi_comparison is empty.
\* total_kpis is at most 3, so the quotient is a whole number, and
\* (improvement_score / 100) * 100 gives it back unchanged.
KpiScore(kpi_improvements, total_kpis) ==
    IF total_kpis > 0 THEN (kpi_improvements * 60) \div total_kpis ELSE 0

Assessment(normalized_score, total_anomalies_change, kpi_improvements, total_kpis) ==
    [improvement_score |-> normalized_score,
     improvement_level |-> ImprovementLevel(normalized_score),
     anomaly_reduction |-> total_anomalies_change,
     kpi_improvements |-> kpi_improvements,
     total_kpis |-> total_kpis]

Scored(comparison_results, credit) ==
    Assessment(credit + KpiScore(NetImprovements(comparison_results.kpi_comparison),
                                 Cardinality(DOMAIN comparison_results.kpi_comparison)),
               comparison_results.total_anomalies_change,
               NetImprovements(comparison_results.kpi_comparison),
               Cardinality(DOMAIN comparison_results.kpi_comparison))

\* the 40 points granted as soon as the anomaly total has not grown
CreditWhenNotWorse(comparison_results) ==
    Scored(comparison_results,
           IF comparison_results.total_anomalies_change <= 0 THEN 40 ELSE 0)
_assess_improvements(comparison_results) ==
    Scored(comparison_results,
           IF comparison_results.total_anomalies_change < 0 THEN 40 ELSE 0)

\* the response of POST /compare/before-after
Failed(detail) == [status |-> 500, detail |-> detail]

Responded(before_df, after_df, comparison_results) ==
    [status |-> 200,
     before_records |-> Len(before_df.rows),
     after_records |-> Len(after_df.rows),
     kpi_comparison |-> comparison_results.kpi_comparison,
     anomaly_comparison |-> comparison_results.anomaly_comparison,
     correlation_comparison |-> comparison_results.correlation_comparison,
     improvement_assessment |-> _assess_improvements(comparison_results),
     summary |-> comparison_results.summary]

\* lines 61-90, given the two panels, their anomaly results and what the two
\* correlation analyses gave (each [outcome, results])
Compared(before_df, after_df, before_anomalies, after_anomalies, before_correlations, after_correlations) ==
    IF before_correlations.outcome # "returned" THEN Failed(before_correlations.outcome)
    ELSE IF after_correlations.outcome # "returned" THEN Failed(after_correlations.outcome)
    ELSE Responded(before_df, after_df,
                   _calculate_comparison_metrics(before_df, after_df,
                                                 before_anomalies, after_anomalies,
                                                 before_correlations.results,
                                                 after_correlations.results))

----------------------------------------------------------------------------
(* Baseline comparison  (app/routers/compare.py)                           *)
(*                                                                         *)
(* A metrics dict is a function from its keys to means; None is NoValue.   *)
(* A percentage is the fraction num / den.                                 *)

MeanKeys == {"rtwp_mean", "sinr_mean", "prb_mean"}
NoValue == [nan |-> TRUE, num |-> 0, den |-> 0]

\* current_val - baseline_val, a mean
Deviation(baseline_val, current_val) ==
    IF baseline_val.nan \/ current_val.nan THEN NaNFrac
    ELSE [nan |-> FALSE,
          num |-> current_val.num * baseline_val.den - baseline_val.num * current_val.den,
          den |-> current_val.den * baseline_val.den]

\* (deviation / baseline_val * 100) if baseline_val != 0 else 0
DeviationPercent(baseline_val, current_val) ==
    IF FracIsZero(baseline_val) THEN ZeroPercent
    ELSE IF baseline_val.nan \/ current_val.nan THEN [nan |-> TRUE, num |-> 0, den |-> 1]
    ELSE [nan |-> FALSE,
          num |-> 100 * (current_val.num * baseline_val.den
                            - baseline_val.num * current_val.den),
          den |-> baseline_val.num * current_val.den]

\* abs(deviation_percent) < bound; False for NaN
PercentBelow(deviation_percent, bound) ==
    ~deviation_percent.nan /\ Abs(deviation_percent.num) < bound * Abs(deviation_percent.den)

\* the three bounds read as inclusive
DeviationInclusive(deviation_percent) ==
    IF deviation_percent.nan THEN "major_deviation"
    ELSE IF ~PercentBelow(deviation_percent, 30)
            /\ Abs(deviation_percent.num) # 30 * Abs(deviation_percent.den)
         THEN "major_deviation"
    ELSE IF ~PercentBelow(deviation_percent, 15)
            /\ Abs(deviation_percent.num) # 15 * Abs(deviation_percent.den)
         THEN "significant_deviation"
    ELSE IF ~PercentBelow(deviation_percent, 5)
            /\ Abs(deviation_percent.num) # 5 * Abs(deviation_percent.den)
         THEN "minor_deviation"
    ELSE "within_normal_range"
_assess_deviation_status(deviation_percent) ==
    IF PercentBelow(deviation_percent, 5) THEN "within_normal_range"
    ELSE IF PercentBelow(deviation_percent, 15) THEN "minor_deviation"
    ELSE IF PercentBelow(deviation_percent, 30) THEN "significant_deviation"
    ELSE "major_deviation"

DeviationEntry(baseline_val, current_val) ==
    [baseline_value |-> baseline_val,
     current_value |-> current_val,
     deviation |-> Deviation(baseline_val, current_val),
     deviation_percent |-> DeviationPercent(baseline_val, current_val),
     status |-> _assess_deviation_status(DeviationPercent(baseline_val, current_val))]

_calculate_baseline_deviations(baseline_metrics, current_metrics) ==
    [metric \in {k \in MeanKeys \cap DOMAIN baseline_metrics \cap DOMAIN current_metrics :
                    baseline_metrics[k] # NoValue /\ current_metrics[k] # NoValue} |->
        DeviationEntry(baseline_metrics[metric], current_metrics[metric])]

\* _assess_baseline_performance: the score is acceptable / total * 100, or
\* 100 without deviations; score >= bound
PerformanceAtLeast(acceptable_deviations, total_deviations, bound) ==
    IF total_deviations > 0 THEN acceptable_deviations * 100 >= bound * total_deviations
    ELSE 100 >= bound
OverallStatus(acceptable_deviations, total_deviations, anomaly_severity) ==
    IF PerformanceAtLeast(acceptable_deviations, total_deviations, 80) /\ anomaly_severity = "low"
    THEN "excellent"
    ELSE IF PerformanceAtLeast(acceptable_deviations, total_deviations, 60)
            /\ anomaly_severity \in {"low", "medium"}
    THEN "good"
    ELSE IF PerformanceAtLeast(acceptable_deviations, total_deviations, 40) THEN "fair"
    ELSE "poor"
Performance(acceptable_deviations, total_deviations, anomaly_severity) ==
    [overall_status |-> OverallStatus(acceptable_deviations, total_deviations,
                                      anomaly_severity),
     acceptable_deviations |-> acceptable_deviations,
     total_deviations |-> total_deviations,
     anomaly_severity |-> anomaly_severity]
_assess_baseline_performance(deviations, current_anomalies) ==
    Performance(Cardinality({k \in DOMAIN deviations :
                                deviations[k].status \in {"within_normal_range",
                                                          "minor_deviation"}}),
                Cardinality(DOMAIN deviations), current_anomalies.summary.severity)

\* the metrics of a panel with the counts of its anomaly results (lines 163-173)
CurrentMetrics(df, current_anomalies) ==
    [rtwp_mean |-> MeanOf(Col(df.rows, "RTWP")), rtwp_std |-> StdOf(Col(df.rows, "RTWP")),
     sinr_mean |-> MeanOf(Col(df.rows, "SINR")), sinr_std |-> StdOf(Col(df.rows, "SINR")),
     prb_mean |-> MeanOf(Col(df.rows, "PRB")), prb_std |-> StdOf(Col(df.rows, "PRB")),
     rtwp_anomalies |-> current_anomalies.rtwp_anomalies.count,
     sinr_anomalies |-> current_anomalies.sinr_anomalies.count,
     prb_anomalies |-> current_anomalies.prb_anomalies.count]

\* the industry defaults used without a baseline id
DefaultMetrics ==
    [rtwp_mean |-> [nan |-> FALSE, num |-> Whole(-95), den |-> 1],
     rtwp_std |-> Whole(3),
     sinr_mean |-> [nan |-> FALSE, num |-> Whole(15), den |-> 1],
     sinr_std |-> Whole(2),
     prb_mean |-> [nan |-> FALSE, num |-> Whole(60), den |-> 1],
     prb_std |-> Whole(15),
     rtwp_anomalies |-> 0, sinr_anomalies |-> 0, prb_anomalies |-> 0]

\* db.query(AnalysisResult).filter(upload_id == id).first(): the rows found
Found(records, upload_id) ==
    SelectSeq(records.analysis_results, LAMBDA r : r.upload_id = upload_id)
\* baseline metrics from the stored analysis
StoredMetrics(baseline_analysis) ==
    [rtwp_mean |-> baseline_analysis.rtwp_mean, rtwp_std |-> baseline_analysis.rtwp_std,
     sinr_mean |-> baseline_analysis.sinr_mean, sinr_std |-> baseline_analysis.sinr_std,
     prb_mean |-> baseline_analysis.prb_mean, prb_std |-> baseline_analysis.prb_std,
     rtwp_anomalies |-> baseline_analysis.rtwp_anomalies,
     sinr_anomalies |-> baseline_analysis.sinr_anomalies,
     prb_anomalies |-> baseline_analysis.prb_anomalies]

BaselineResponse(current_df, baseline_metrics, current_metrics, deviations, current_anomalies, current_correlations) ==
    [status |-> 200,
     current_records |-> Len(current_df.rows),
     baseline_metrics |-> baseline_metrics,
     current_metrics |-> current_metrics,
     deviations |-> deviations,
     performance_assessment |-> _assess_baseline_performance(deviations, current_anomalies),
     anomaly_analysis |-> current_anomalies,
     correlation_analysis |-> current_correlations]

\* lines 158-192, the baseline metrics chosen
AgainstBaseline(current_df, baseline_metrics, current_anomalies, current_correlations) ==
    IF current_correlations.outcome # "returned" THEN Failed(current_correlations.outcome)
    ELSE BaselineResponse(current_df, baseline_metrics,
                          CurrentMetrics(current_df, current_anomalies),
                          _calculate_baseline_deviations(
                              baseline_metrics, CurrentMetrics(current_df, current_anomalies)),
                          current_anomalies, current_correlations.results)

----------------------------------------------------------------------------
(* Analysis request  (app/routers/analyze.py)                              *)
(*                                                                         *)
(* The database is [uploads, analysis_results], two sequences of rows in   *)
(* insertion order; the id of an upload is its position.  Writes to the    *)
(* database succeed.                                                       *)

NoRecords == [uploads |-> <<>>, analysis_results |-> <<>>]

\* Upload(..., status = "processing"); db.add; db.commit; db.refresh
WithUpload(records) ==
    [records EXCEPT !.uploads =
        Append(@, [id |-> Len(records.uploads) + 1, status |-> "processing"])]

\* upload_record.status = status; db.commit()
WithStatus(records, upload_id, status) ==
    [records EXCEPT !.uploads[upload_id].status = status]

\* kpi_stats (lines 93-107)
KpiStats(df) ==
    [rtwp_mean |-> MeanOf(Col(df.rows, "RTWP")), rtwp_std |-> StdOf(Col(df.rows, "RTWP")),
     rtwp_min |-> MinOf(Col(df.rows, "RTWP")), rtwp_max |-> MaxOf(Col(df.rows, "RTWP")),
     sinr_mean |-> MeanOf(Col(df.rows, "SINR")), sinr_std |-> StdOf(Col(df.rows, "SINR")),
     sinr_min |-> MinOf(Col(df.rows, "SINR")), sinr_max |-> MaxOf(Col(df.rows, "SINR")),
     prb_mean |-> MeanOf(Col(df.rows, "PRB")), prb_std |-> StdOf(Col(df.rows, "PRB")),
     prb_min |-> MinOf(Col(df.rows, "PRB")), prb_max |-> MaxOf(Col(df.rows, "PRB")),
     total_records |-> Len(df.rows)]

\* AnalysisResult(upload_id = ..., ...)
AnalysisRecord(upload_id, kpi_stats, anomaly_results, correlation_results) ==
    [upload_id |-> upload_id,
     rtwp_mean |-> kpi_stats.rtwp_mean, rtwp_std |-> kpi_stats.rtwp_std,
     sinr_mean |-> kpi_stats.sinr_mean, sinr_std |-> kpi_stats.sinr_std,
     prb_mean |-> kpi_stats.prb_mean, prb_std |-> kpi_stats.prb_std,
     rtwp_anomalies |-> anomaly_results.rtwp_anomalies.count,
     sinr_anomalies |-> anomaly_results.sinr_anomalies.count,
     prb_anomalies |-> anomaly_results.prb_anomalies.count,
     rtwp_sinr_correlation |-> correlation_results.pairwise_correlations.RTWP_SINR.correlation,
     rtwp_prb_correlation |-> correlation_results.pairwise_correlations.RTWP_PRB.correlation,
     sinr_prb_correlation |-> correlation_results.pairwise_correlations.SINR_PRB.correlation]

\* db.add(analysis_record); upload_record.status = "completed"; db.commit()
WithAnalysis(records, analysis_record) ==
    WithStatus([records EXCEPT !.analysis_results = Append(@, analysis_record)],
               analysis_record.upload_id, "completed")

\* the except branch with 'upload_record' in locals() false: nothing marked
Unmarked(records, upload_id, e) ==
    [records |-> records, raised |-> e, response |-> Failed(e)]
\* the except branch once the upload record exists: the upload is marked
\* failed and the exception leaves as HTTP 500
Rejected(records, upload_id, e) ==
    [records |-> WithStatus(records, upload_id, "failed"), raised |-> e,
     response |-> Failed(e)]

\* lines 121-167
Completed(records, upload_id, df, parsed_metadata, anomaly_results, correlation_results) ==
    [records |-> WithAnalysis(records,
                              AnalysisRecord(upload_id, KpiStats(df), anomaly_results,
                                             correlation_results)),
     raised |-> "",
     response |-> [status |-> 200,
                   upload_id |-> upload_id,
                   metadata |-> parsed_metadata,
                   kpi_statistics |-> KpiStats(df),
                   anomaly_analysis |-> anomaly_results,
                   correlation_analysis |-> correlation_results]]

\* lines 109-167, the panel parsed
Analyzed(records, upload_id, df, parsed_metadata, anomaly_results, correlation) ==
    IF correlation.outcome # "returned" THEN Rejected(records, upload_id, correlation.outcome)
    ELSE Completed(records, upload_id, df, parsed_metadata, anomaly_results,
                   correlation.results)

----------------------------------------------------------------------------
(* Inputs                                                                  *)

MaxRows == 9        \* rows of a directly built frame
LongRows == 20      \* rows of the long frames (adaptive window = 5)
MaxCsvRows == 3     \* data rows of a CSV of the body family
TrimRows == 12      \* data rows of a CSV of the outlier family
CapRows == 84       \* rows of the frame whose lag range is capped at 10 and
                    \* whose adaptive window is capped at 20

\* tests/test_basic.py, test_anomaly_detector
TestAnomalyData ==
    [RTWP |-> <<-95, -96, -94, -70, -97, -98>>,
     SINR |-> <<18, 19, 17, 20, 16, 18>>,
     PRB  |-> <<65, 68, 62, 71, 69, 66>>]
\* tests/test_basic.py, test_correlation_engine
TestCorrelationData ==
    [RTWP |-> <<-95, -96, -94, -97, -98, -99>>,
     SINR |-> <<18, 19, 17, 16, 15, 14>>,
     PRB  |-> <<65, 68, 62, 71, 69, 66>>]
\* section 8 of the specification: RTWP = [-95, -96, -94, -97, -98, -60]
ScenarioRtwpData ==
    [RTWP |-> <<-95, -96, -94, -97, -98, -60>>,
     SINR |-> <<18, 19, 17, 16, 15, 14>>,
     PRB  |-> <<65, 68, 62, 71, 69, 66>>]

\* pd.DataFrame(data): the named columns, whole numbers, no TIME column
DataFrame(data, cols) ==
    [cols |-> cols,
     rows |-> [i \in 1..Len(data.RTWP) |->
                  [TIME |-> NaT, RTWP |-> Whole(data.RTWP[i]),
                   SINR |-> Whole(data.SINR[i]), PRB |-> Whole(data.PRB[i])]]]

TestAnomalyFrame == DataFrame(TestAnomalyData, Metrics)
TestCorrelationFrame == DataFrame(TestCorrelationData, Metrics)
ScenarioRtwpFrame == DataFrame(ScenarioRtwpData, Metrics)

\* a nominal series of n rows (the values of test_correlation_engine, repeated)
\* with the value v at position k
Cycle(s, i) == s[((i - 1) % Len(s)) + 1]
SpikeValues ==
    [RTWP |-> {-95, -70, -60, -125}, SINR |-> {17, -5, 40}, PRB |-> {65, 110, -5}]
SpikeData(n, c, k, v) ==
    [m \in Metrics |-> [i \in 1..n |-> IF m = c /\ i = k THEN v
                                       ELSE Cycle(TestCorrelationData[m], i)]]

SpikeFrames ==
    {DataFrame(SpikeData(t[1], t[2], t[3], t[4]), Metrics) :
        t \in {u \in (1..MaxRows) \X Metrics \X (1..MaxRows) \X (-125..110) :
                  u[3] <= u[1] /\ u[4] \in SpikeValues[u[2]]}}

\* frames that lack some of the KPI columns
PartialFrames ==
    {DataFrame(data, cols) :
        data \in {TestAnomalyData, TestCorrelationData, ScenarioRtwpData},
        cols \in (SUBSET Metrics) \ {Metrics}}

LongFrames ==
    UNION {{DataFrame(SpikeData(LongRows, c, k, v), Metrics) :
               k \in {LongRows \div 2, LongRows}, v \in SpikeValues[c]} : c \in Metrics}

\* frames with two samples of one metric beyond an absolute bound: the first
\* row slightly, the last row far enough to be a statistical outlier as well
DoubleSpikes == [RTWP |-> <<-65, 100>>, SINR |-> <<-1, -100>>, PRB |-> <<101, 250>>]
DoubleSpikeData(c) ==
    [m \in Metrics |->
        [i \in 1..MaxRows |->
            IF m = c /\ i = 1 THEN DoubleSpikes[c][1]
            ELSE IF m = c /\ i = MaxRows THEN DoubleSpikes[c][2]
            ELSE Cycle(TestCorrelationData[m], i)]]
DoubleSpikeFrames == {DataFrame(DoubleSpikeData(c), Metrics) : c \in Metrics}

\* a frame of more than 80 rows: floor(n / 4) exceeds 10 and 20
CapFrame == DataFrame(SpikeData(CapRows, "SINR", 1, 17), Metrics)

\* a long frame in which SINR rises and PRB falls exactly as RTWP rises
TrackingData ==
    [RTWP |-> [i \in 1..LongRows |-> Cycle(TestCorrelationData.RTWP, i)],
     SINR |-> [i \in 1..LongRows |-> Cycle(TestCorrelationData.RTWP, i) + 113],
     PRB  |-> [i \in 1..LongRows |-> -Cycle(TestCorrelationData.RTWP, i) - 30]]
TrackingFrame == DataFrame(TrackingData, Metrics)

\* a panel of CapRows rows whose SINR is 15 dB lower over the last five rows
BurstData ==
    [m \in Metrics |->
        [i \in 1..CapRows |->
            Cycle(TestCorrelationData[m], i)
                - (IF m = "SINR" /\ i > CapRows - 5 THEN 15 ELSE 0)]]
BurstFrame == DataFrame(BurstData, Metrics)

\* long frames whose columns are each nominal, flat (one value throughout) or
\* out of range throughout (RTWP above -70, SINR below 0, PRB above 100)
Levels == {"nominal", "flat", "out"}
OutShift == [RTWP |-> 40, SINR |-> -30, PRB |-> 50]
LevelData(level) ==
    [m \in Metrics |->
        [i \in 1..LongRows |->
            CASE level[m] = "nominal" -> Cycle(TestCorrelationData[m], i)
              [] level[m] = "flat"    -> TestCorrelationData[m][1]
              [] OTHER                -> Cycle(TestCorrelationData[m], i) + OutShift[m]]]
LevelFrames == {DataFrame(LevelData(level), Metrics) : level \in [Metrics -> Levels]}

Frames == {TestAnomalyFrame, TestCorrelationFrame, ScenarioRtwpFrame}
              \cup SpikeFrames \cup PartialFrames \cup LongFrames \cup LevelFrames
              \cup DoubleSpikeFrames \cup {CapFrame, TrackingFrame, BurstFrame}

CanonicalHeader == [c \in Range(Slots) |-> Name(c)]
NoTimeHeader == [CanonicalHeader EXCEPT !["TIME"] = NoHeader]
NoPrbHeader == [CanonicalHeader EXCEPT !["PRB"] = NoHeader]

CsvRow(t, rtwp, sinr, prb) == [TIME |-> t, RTWP |-> rtwp, SINR |-> sinr, PRB |-> prb]

\* tests/test_basic.py, test_kpi_parser and test_integration
TestParserCsv ==
    [hdr |-> CanonicalHeader,
     rows |-> << CsvRow(0, Tenths(-955), Tenths(182), Tenths(653)),
                 CsvRow(1, Tenths(-961), Tenths(178), Tenths(681)),
                 CsvRow(2, Tenths(-948), Tenths(191), Tenths(624)),
                 CsvRow(3, Tenths(-972), Tenths(169), Tenths(712)) >>]
TestIntegrationCsv ==
    [hdr |-> CanonicalHeader,
     rows |-> TestParserCsv.rows \o << CsvRow(4, Tenths(-700), Tenths(250), Tenths(900)) >>]

\* header family: every spelling of the four headers over a two-row body
HeaderNames ==
    [TIME |-> {"", "TIME", "TIMESTAMP", "DATE", "DATETIME"},
     RTWP |-> {"", "RTWP", "RTWP_DBM", "POWER"},
     SINR |-> {"", "SINR", "SINR_DB"},
     PRB  |-> {"", "PRB", "PRB_UTILIZATION", "PRB_UTIL", "PRB_USAGE"}]
Spelled(n, pad, lower) ==
    IF n = "" THEN NoHeader ELSE [name |-> n, pad |-> pad, lower |-> lower]
HeaderCsvs ==
    {[hdr |-> [TIME |-> Spelled(t, pad, lower), RTWP |-> Spelled(r, pad, lower),
               SINR |-> Spelled(x, pad, lower), PRB |-> Spelled(b, pad, lower)],
      rows |-> SubSeq(TestParserCsv.rows, 1, 2)] :
        t \in HeaderNames.TIME, r \in HeaderNames.RTWP, x \in HeaderNames.SINR,
        b \in HeaderNames.PRB, pad \in BOOLEAN, lower \in BOOLEAN}

\* body family: canonical headers, with or without a time column or without
\* the PRB column, over every sequence of at most MaxCsvRows of these rows
CsvRows ==
    { CsvRow(0, Tenths(-955), Tenths(182), Tenths(653)),
      CsvRow(1, Tenths(-961), Tenths(178), Tenths(681)),
      CsvRow(TEXT, Tenths(-948), BLANK, Tenths(624)),     \* bad date, SINR empty
      CsvRow(BLANK, BLANK, BLANK, BLANK),                 \* an empty line ",,,"
      CsvRow(2, TEXT, Tenths(169), Tenths(712)),          \* RTWP is not a number
      CsvRow(3, BLANK, Tenths(250), Tenths(900)) }        \* RTWP empty

RECURSIVE SeqsUpTo(_, _)
SeqsUpTo(S, n) ==
    IF n = 0 THEN {<<>>}
    ELSE LET shorter == SeqsUpTo(S, n - 1)
         IN  shorter \cup {Append(q, x) : q \in {r \in shorter : Len(r) = n - 1}, x \in S}

BodyCsvs ==
    {[hdr |-> h, rows |-> rows] :
        h \in {CanonicalHeader, NoTimeHeader, NoPrbHeader}, rows \in SeqsUpTo(CsvRows, MaxCsvRows)}

\* outlier family: TrimRows - 1 or TrimRows rows at 15 minute steps, RTWP and
\* SINR nominal, PRB 50.0 throughout but for the first and the last row
PrbEnds == {50, 53, 150}
OutlierRows(n, first, last) ==
    [i \in 1..n |->
        CsvRow(i - 1, Whole(Cycle(TestCorrelationData.RTWP, i)),
               Whole(Cycle(TestCorrelationData.SINR, i)),
               Whole(IF i = 1 THEN first ELSE IF i = n THEN last ELSE 50))]
OutlierCsvs ==
    {[hdr |-> CanonicalHeader, rows |-> OutlierRows(n, first, last)] :
        n \in {TrimRows - 1, TrimRows}, first \in PrbEnds, last \in PrbEnds}

\* before/after files: the CSV of test_integration, and LongRows rows of the
\* nominal data, as they are, with one metric shifted, or with RTWP left empty
NoShift == [RTWP |-> 0, SINR |-> 0, PRB |-> 0]
CompareShifts == {NoShift, [NoShift EXCEPT !.RTWP = 10], [NoShift EXCEPT !.SINR = -30],
                  [NoShift EXCEPT !.PRB = 50]}
ShiftedCsv(shift, empty) ==
    [hdr |-> CanonicalHeader,
     rows |-> [i \in 1..LongRows |->
                  [c \in Range(Slots) |->
                      IF c = "TIME" THEN i - 1
                      ELSE IF c \in empty THEN BLANK
                      ELSE Whole(Cycle(TestCorrelationData[c], i) + shift[c])]]]
CompareFiles ==
    {TestIntegrationCsv, ShiftedCsv(NoShift, {"RTWP"})}
        \cup {ShiftedCsv(shift, {}) : shift \in CompareShifts}

\* means handed to _assess_kpi_improvement, and the verdicts and changes of the
\* anomaly total handed to _assess_improvements
KpiValues == {-100, -95, -90, 0, 10, 15, 30, 40, 50, 60, 80, 90}
Mean(x) == [nan |-> FALSE, num |-> Whole(x), den |-> 1]
Verdicts == {"improved", "degraded", "stable"}
AnomalyChanges == {-3, 0, 2}
VerdictResults ==
    UNION {{[kpi_comparison |-> [m \in present |-> [improvement |-> verdict[m]]],
             total_anomalies_change |-> change] :
               verdict \in [present -> Verdicts], change \in AnomalyChanges} :
           present \in SUBSET Metrics}

\* metrics dicts handed to _calculate_baseline_deviations: the industry
\* defaults of compare_with_baseline or no key at all, with one key set to a
\* value, to None, or left out
Absent == [nan |-> TRUE, num |-> 1, den |-> 0]
Twentieths(n) == [nan |-> FALSE, num |-> n, den |-> 1]
NoMetrics == [k \in {} |-> NoValue]
Put(d, k, v) ==
    IF v = Absent THEN [x \in (DOMAIN d) \ {k} |-> d[x]]
    ELSE [x \in (DOMAIN d) \cup {k} |-> IF x = k THEN v ELSE d[x]]
BaselineValues ==
    {Absent, NoValue, NaNFrac, Mean(0), Mean(-95), Mean(15), Mean(60), Mean(100)}
CurrentValues ==
    {Absent, NoValue, NaNFrac, Mean(0), Mean(-95), Mean(15), Mean(60), Mean(100),
     Mean(57), Mean(63), Mean(69), Mean(78), Mean(95), Mean(104), Mean(105), Mean(114),
     Mean(115), Mean(129), Mean(130), Mean(-100), Twentieths(-1995), Mean(18),
     Twentieths(314)}

\* files posted to /analyze and /compare/baseline: the test CSVs, the nominal
\* LongRows rows, sound, with RTWP empty or with PRB 50 higher, and the
\* parser test rows without time column, without PRB column or with a cell
\* that is no number
UploadFiles ==
    {TestParserCsv, TestIntegrationCsv, ShiftedCsv(NoShift, {}),
     ShiftedCsv(NoShift, {"RTWP"}), ShiftedCsv([NoShift EXCEPT !.PRB = 50], {}),
     [hdr |-> NoTimeHeader, rows |-> TestParserCsv.rows],
     [hdr |-> NoPrbHeader, rows |-> TestParserCsv.rows],
     [hdr |-> CanonicalHeader,
      rows |-> TestParserCsv.rows \o << CsvRow(4, TEXT, Tenths(169), Tenths(712)) >>]}
\* baseline_upload_id: left out, or the id of a first or a second upload
BaselineIds == {None, 1, 2}

CsvFiles == {TestParserCsv, TestIntegrationCsv} \cup HeaderCsvs \cup BodyCsvs \cup OutlierCsvs

NoCsv == [hdr |-> [c \in Range(Slots) |-> NoHeader], rows |-> <<>>]

----------------------------------------------------------------------------
(* The request                                                             *)

Init ==
    /\ scipyAvailable \in BOOLEAN
    /\ pc = "idle"
    /\ csv = NoCsv
    /\ panel = NoFrame
    /\ metadata = NoMetadata
    /\ parseError = NoError
    /\ anomalies = NotRun
    /\ correlations = NotRun
    /\ corrOutcome = "none"
    /\ comparison = NotRun
    /\ db = NoRecords
    /\ analysis = NotRun

\* df, metadata = parser.parse_csv(content, filename)
Answer(file, res) ==
    /\ csv' = file
    /\ parseError' = res.error
    /\ panel' = res.df
    /\ metadata' = res.metadata
    /\ pc' = IF res.error = NoError THEN "parsed" ELSE "rejected"

ParseCsv ==
    /\ pc = "idle"
    /\ \E file \in CsvFiles : Answer(file, parse_csv(file))
    /\ UNCHANGED <<db, analysis, comparison, scipyAvailable, anomalies, correlations, corrOutcome>>

\* df = pd.DataFrame(data), as the unit tests build their panels
BuildFrame ==
    /\ pc = "idle"
    /\ \E df \in Frames : panel' = df
    /\ pc' = "framed"
    /\ UNCHANGED <<db, analysis, comparison, scipyAvailable, csv, metadata, parseError, anomalies,
                   correlations, corrOutcome>>

\* results = detector.detect_anomalies(df)
DetectAnomalies ==
    /\ pc \in {"parsed", "framed"}
    /\ anomalies = NotRun
    /\ anomalies' = detect_anomalies(panel)
    /\ UNCHANGED <<db, analysis, comparison, scipyAvailable, pc, csv, panel, metadata, parseError,
                   correlations, corrOutcome>>

\* what stats.pearsonr may answer for the pairs it is asked about
Allowed(df) ==
    [key \in PairKeys(df) |-> IF PairCorr(df, key).nan THEN {PNaN} ELSE ExactPValues]
ChoicesIn(df, allowed) ==
    {e \in [PairKeys(df) -> ExactPValues \cup {PNaN}] :
        \A key \in PairKeys(df) : e[key] \in allowed[key]}
ExactChoices(df, scipy) ==
    IF scipy /\ ~PairwiseRaises(df, scipy) THEN ChoicesIn(df, Allowed(df))
    ELSE {[key \in PairKeys(df) |-> PNaN]}

Outcome(res) ==
    /\ corrOutcome' = res.outcome
    /\ correlations' = res.results

Analysed(windowed) ==
    \E exact \in ExactChoices(panel, scipyAvailable) :
        Outcome(AnalyzeWith(panel, scipyAvailable, exact, windowed))

\* results = engine.analyze_correlations(df)
AnalyzeCorrelations ==
    /\ pc \in {"parsed", "framed"}
    /\ corrOutcome = "none"
    /\ Analysed(WindowedResults(panel))
    /\ UNCHANGED <<db, analysis, comparison, scipyAvailable, pc, csv, panel, metadata, parseError, anomalies>>

\* what POST /compare/before-after answers once both files are parsed
Answered(before_file, after_file, response) ==
    comparison' = [call |-> "compare_before_after_analysis",
                   before_file |-> before_file, after_file |-> after_file,
                   response |-> response]

BothAnalysed(before_file, after_file, before_df, after_df, before_anomalies, after_anomalies, before_windowed, after_windowed) ==
    \E before_exact \in ExactChoices(before_df, scipyAvailable) :
        \E after_exact \in ExactChoices(after_df, scipyAvailable) :
            Answered(before_file, after_file,
                     Compared(before_df, after_df, before_anomalies, after_anomalies,
                              AnalyzeWith(before_df, scipyAvailable, before_exact,
                                          before_windowed),
                              AnalyzeWith(after_df, scipyAvailable, after_exact,
                                          after_windowed)))

BothParsed(before_file, after_file, before, after) ==
    IF before.error # NoError THEN Answered(before_file, after_file, Failed(before.error.type))
    ELSE IF after.error # NoError
    THEN Answered(before_file, after_file, Failed(after.error.type))
    ELSE BothAnalysed(before_file, after_file, before.df, after.df,
                      detect_anomalies(before.df), detect_anomalies(after.df),
                      WindowedResults(before.df), WindowedResults(after.df))

\* POST /compare/before-after; csv_names: both file names end in .csv.  Every
\* exception, the HTTPException of the name check included, leaves as HTTP 500.
CompareBeforeAfter ==
    /\ pc = "idle"
    /\ \E before_file \in CompareFiles : \E after_file \in CompareFiles :
          \E csv_names \in BOOLEAN :
              IF ~csv_names
              THEN Answered(before_file, after_file, Failed("HTTPException"))
              ELSE BothParsed(before_file, after_file,
                              parse_csv(before_file), parse_csv(after_file))
    /\ pc' = "compared"
    /\ UNCHANGED <<db, analysis, scipyAvailable, csv, panel, metadata, parseError, anomalies,
                   correlations, corrOutcome>>

\* _assess_kpi_improvement(metric, before_value, after_value)
AssessKpi ==
    /\ pc = "idle"
    /\ \E metric \in Metrics : \E before_value \in KpiValues : \E after_value \in KpiValues :
          comparison' = [call |-> "_assess_kpi_improvement",
                         metric |-> metric,
                         before_value |-> before_value,
                         after_value |-> after_value,
                         improvement |-> _assess_kpi_improvement(metric, Mean(before_value),
                                                                 Mean(after_value))]
    /\ pc' = "assessed"
    /\ UNCHANGED <<db, analysis, scipyAvailable, csv, panel, metadata, parseError, anomalies,
                   correlations, corrOutcome>>

\* _assess_improvements(comparison_results)
AssessImprovements ==
    /\ pc = "idle"
    /\ \E comparison_results \in VerdictResults :
          comparison' = [call |-> "_assess_improvements",
                         comparison_results |-> comparison_results,
                         assessment |-> _assess_improvements(comparison_results)]
    /\ pc' = "scored"
    /\ UNCHANGED <<db, analysis, scipyAvailable, csv, panel, metadata, parseError, anomalies,
                   correlations, corrOutcome>>

\* _calculate_baseline_deviations(baseline_metrics, current_metrics)
Deviated(baseline_metrics, current_metrics) ==
    comparison' = [call |-> "_calculate_baseline_deviations",
                   baseline_metrics |-> baseline_metrics,
                   current_metrics |-> current_metrics,
                   deviations |-> _calculate_baseline_deviations(baseline_metrics,
                                                                 current_metrics)]
CalculateBaselineDeviations ==
    /\ pc = "idle"
    /\ \E others \in {NoMetrics, DefaultMetrics} : \E metric \in MeanKeys :
          \E baseline_val \in BaselineValues : \E current_val \in CurrentValues :
              Deviated(Put(others, metric, baseline_val), Put(others, metric, current_val))
    /\ pc' = "deviated"
    /\ UNCHANGED <<db, analysis, scipyAvailable, csv, panel, metadata, parseError, anomalies,
                   correlations, corrOutcome>>

\* what POST /compare/baseline answers
Baselined(current_file, baseline_upload_id, response) ==
    comparison' = [call |-> "compare_with_baseline",
                   current_file |-> current_file,
                   baseline_upload_id |-> baseline_upload_id,
                   parser_called |-> TRUE,
                   response |-> response]

CurrentAnalysed(current_file, baseline_upload_id, current_df, baseline_metrics) ==
    \E exact \in ExactChoices(current_df, scipyAvailable) :
        Baselined(current_file, baseline_upload_id,
                  AgainstBaseline(current_df, baseline_metrics, detect_anomalies(current_df),
                                  analyze_correlations(current_df, scipyAvailable, exact)))

\* lines 124-156: the baseline of the stored analysis, or the defaults
CurrentParsed(current_file, baseline_upload_id, current, found) ==
    IF current.error # NoError
    THEN Baselined(current_file, baseline_upload_id, Failed(current.error.type))
    ELSE IF baseline_upload_id \in {None, 0}
    THEN CurrentAnalysed(current_file, baseline_upload_id, current.df, DefaultMetrics)
    ELSE IF found = <<>>
    THEN Baselined(current_file, baseline_upload_id, Failed("HTTPException"))
    ELSE CurrentAnalysed(current_file, baseline_upload_id, current.df,
                         StoredMetrics(found[1]))

\* POST /compare/baseline.  The file is parsed first; every exception, the
\* HTTPException of the missing baseline included, leaves as HTTP 500.
CompareWithBaseline ==
    /\ pc \in {"idle", "analyzed"}
    /\ \E current_file \in UploadFiles : \E baseline_upload_id \in BaselineIds :
          CurrentParsed(current_file, baseline_upload_id, parse_csv(current_file),
                        Found(db, baseline_upload_id))
    /\ pc' = "baselined"
    /\ UNCHANGED <<db, analysis, scipyAvailable, csv, panel, metadata, parseError,
                   anomalies, correlations, corrOutcome>>

\* POST /analyze up to the first commit (lines 43-73).  csv_name: the file
\* name ends in .csv; within_limit: file.size is at most 10 MB.  A failed
\* check raises HTTPException inside the try block, whose except branch
\* answers HTTP 500; no upload record exists then.
Received(file, csv_name, within_limit, upload_id, outcome) ==
    analysis' = [call |-> "analyze_kpi_file", file |-> file, csv_name |-> csv_name,
                 within_limit |-> within_limit, upload_id |-> upload_id,
                 parser_called |-> FALSE, raised |-> outcome.raised,
                 response |-> outcome.response]
ReceiveUpload ==
    /\ pc = "idle"
    /\ \E file \in UploadFiles : \E csv_name \in BOOLEAN : \E within_limit \in BOOLEAN :
          IF csv_name /\ within_limit
          THEN /\ db' = WithUpload(db)
               /\ Received(file, csv_name, within_limit, Len(db.uploads) + 1,
                           [raised |-> "", response |-> NotRun])
               /\ pc' = "processing"
          ELSE /\ db' = db
               /\ Received(file, csv_name, within_limit, None,
                           Unmarked(db, None, "HTTPException"))
               /\ pc' = "analyzed"
    /\ UNCHANGED <<comparison, scipyAvailable, csv, panel, metadata, parseError,
                   anomalies, correlations, corrOutcome>>

\* POST /analyze from parse_csv on (lines 75-182)
Processed(outcome) ==
    /\ db' = outcome.records
    /\ analysis' = [analysis EXCEPT !.parser_called = TRUE, !.raised = outcome.raised,
                                    !.response = outcome.response]
UploadParsed(parsed) ==
    IF parsed.error # NoError
    THEN Processed(Rejected(db, analysis.upload_id, parsed.error.type))
    ELSE \E exact \in ExactChoices(parsed.df, scipyAvailable) :
            Processed(Analyzed(db, analysis.upload_id, parsed.df, parsed.metadata,
                               detect_anomalies(parsed.df),
                               analyze_correlations(parsed.df, scipyAvailable, exact)))
ProcessUpload ==
    /\ pc = "processing"
    /\ UploadParsed(parse_csv(analysis.file))
    /\ pc' = "analyzed"
    /\ UNCHANGED <<comparison, scipyAvailable, csv, panel, metadata, parseError,
                   anomalies, correlations, corrOutcome>>

Next ==
    \/ ParseCsv \/ BuildFrame \/ DetectAnomalies \/ AnalyzeCorrelations
    \/ CompareBeforeAfter \/ AssessKpi \/ AssessImprovements
    \/ CalculateBaselineDeviations \/ CompareWithBaseline
    \/ ReceiveUpload \/ ProcessUpload

Spec == Init /\ [][Next]_vars

----------------------------------------------------------------------------
(* Properties                                                              *)

\* the pairwise step of analyze_correlations has run
PairwiseBuilt == corrOutcome \in {"returned", "TypeError"}

\* a panel with the three KPI columns, two to nineteen rows, nothing missing
ShortFullPanel ==
    /\ Metrics \subseteq panel.cols
    /\ Len(panel.rows) \in 2..19
    /\ \A i \in 1..Len(panel.rows) : \A c \in Metrics : panel.rows[i][c] # NaN

\* C1: for every valid panel with RTWP, SINR and PRB and fewer than 20 rows,
\* analyze_correlations returns a result holding the pairwise entry RTWP_SINR
\* and an insights list; it does not raise.
C1_ShortPanelReturns ==
    (corrOutcome # "none" /\ ShortFullPanel) =>
        /\ corrOutcome = "returned"
        /\ "RTWP_SINR" \in DOMAIN correlations.pairwise_correlations
        /\ "insights" \in DOMAIN correlations

\* C2: detect_anomalies on the six-row panel of test_anomaly_detector, whose
\* RTWP column holds one sample equal to -70, reports rtwp_anomalies.count > 0.
C2_TestSampleDetected ==
    (panel = TestAnomalyFrame /\ anomalies # NotRun) =>
        anomalies.rtwp_anomalies.count > 0

\* C3: the five-row CSV of test_integration is parsed into a panel of five
\* rows, and detect_anomalies on it reports summary.total_anomalies > 0.
C3_IntegrationDetected ==
    (csv = TestIntegrationCsv /\ pc = "parsed" /\ anomalies # NotRun) =>
        /\ Len(panel.rows) = 5
        /\ anomalies.summary.total_anomalies > 0

\* the panel holds RTWP = [-95,-96,-94,-97,-98,-99], SINR = [18,19,17,16,15,14]
\* and the pairwise entries have been computed
CorrelationScenario ==
    /\ PairwiseBuilt
    /\ {"RTWP", "SINR"} \subseteq panel.cols
    /\ Col(panel.rows, "RTWP") = [i \in 1..6 |-> Whole(TestCorrelationData.RTWP[i])]
    /\ Col(panel.rows, "SINR") = [i \in 1..6 |-> Whole(TestCorrelationData.SINR[i])]

C5_ApproximateSignificance ==
    (~scipyAvailable /\ PairwiseBuilt) =>
        \A key \in DOMAIN correlations.pairwise_correlations :
            (correlations.pairwise_correlations[key].significance = "significant")
                <=> AbsGreater(correlations.pairwise_correlations[key].correlation, 3, 10)

\* the RTWP report lists index idx with the tag
TaggedAs(report, idx, tag) ==
    \E k \in 1..Len(report.indices) : report.indices[k] = idx /\ report.types[k] = tag

RtwpDetected == anomalies # NotRun /\ "RTWP" \in panel.cols
AboveMax(i) == panel.rows[i].RTWP # NaN /\ panel.rows[i].RTWP > Whole(-70)
Outlier(i) == ExceedsStd(Col(panel.rows, "RTWP"), 5, 2)[i]

\* C6 as claimed: every RTWP sample above -70 is listed in the RTWP report
\* with the tag high_absolute, whatever the statistical test says of it.
C6_AlwaysHighAbsolute ==
    RtwpDetected =>
        \A i \in 1..Len(panel.rows) :
            AboveMax(i) => TaggedAs(anomalies.rtwp_anomalies, i - 1, "high_absolute")

\* C6: every RTWP sample above -70 is listed in the RTWP report, with the tag
\* statistical when it is also a statistical outlier and high_absolute
\* otherwise; for RTWP = [-95,-96,-94,-97,-98,-60] the -60 sample is tagged
\* high_absolute and count >= 1.
C6_FlaggedFirstTagWins ==
    RtwpDetected =>
        /\ \A i \in 1..Len(panel.rows) :
              AboveMax(i) =>
                  TaggedAs(anomalies.rtwp_anomalies, i - 1,
                           IF Outlier(i) THEN "statistical" ELSE "high_absolute")
        /\ (panel = ScenarioRtwpFrame) =>
              /\ TaggedAs(anomalies.rtwp_anomalies, 5, "high_absolute")
              /\ anomalies.rtwp_anomalies.count >= 1

C6_Witness ==
    /\ RtwpDetected
    /\ \E i \in 1..Len(panel.rows) :
          AboveMax(i) /\ Outlier(i) /\ TaggedAs(anomalies.rtwp_anomalies, i - 1, "statistical")

NoDuplicates(seq) == \A i, j \in 1..Len(seq) : seq[i] = seq[j] => i = j
WellFormed(report) ==
    /\ NoDuplicates(report.indices)
    /\ Len(report.types) = Len(report.indices)
    /\ report.count = Len(report.indices)

\* C7: each of the RTWP, SINR and PRB reports has no duplicate index, a types
\* list as long as the index list, and a count equal to that length.
C7_ReportsWellFormed ==
    anomalies # NotRun =>
        /\ WellFormed(anomalies.rtwp_anomalies)
        /\ WellFormed(anomalies.sinr_anomalies)
        /\ WellFormed(anomalies.prb_anomalies)

\* a PRB sample that both tests flag is listed once
C7_Witness ==
    /\ anomalies # NotRun
    /\ "PRB" \in panel.cols
    /\ \E i \in 1..Len(panel.rows) :
          /\ panel.rows[i].PRB > Whole(100)
          /\ ExceedsStd(Col(panel.rows, "PRB"), 2, 1)[i]
    /\ anomalies.prb_anomalies.count = 1

\* C8: every panel parse_csv returns has non-decreasing timestamps, no
\* undefined timestamp and no missing RTWP, SINR or PRB value.
C8_PanelClean ==
    pc = "parsed" =>
        /\ \A i \in 1..Len(panel.rows) : panel.rows[i].TIME # NaT
        /\ \A i \in 1..(Len(panel.rows) - 1) : panel.rows[i].TIME <= panel.rows[i + 1].TIME
        /\ \A i \in 1..Len(panel.rows) : \A c \in Metrics : panel.rows[i][c] # NaN

\* a CSV with no data row, or with a required column in which no row holds a
\* number
Degenerate(file) ==
    \E c \in Metrics : \A i \in 1..Len(file.rows) : file.rows[i][c] \in {BLANK, TEXT}

\* C9: parse_csv fails with a validation error when a required column has no
\* numeric value in any row or the input has no data row, so no such panel
\* is returned.
C9_DegenerateRejected ==
    (pc \in {"parsed", "rejected"} /\ Degenerate(csv)) =>
        /\ pc = "rejected"
        /\ parseError.type = "ValueError"

\* the spellings accepted for a required column, and the required columns
\* that a file's headers spell in none of these ways (blanks and case aside)
Accepted ==
    [RTWP |-> {"RTWP", "RTWP_DBM"}, SINR |-> {"SINR", "SINR_DB"},
     PRB |-> {"PRB", "PRB_UTILIZATION", "PRB_UTIL", "PRB_USAGE"}]
PresentIn(file, c) ==
    \E slot \in DOMAIN file.hdr :
        file.hdr[slot] # NoHeader /\ file.hdr[slot].name \in Accepted[c]
AbsentFrom(file) == SelectSeq(<<"RTWP", "SINR", "PRB">>, LAMBDA c : ~PresentIn(file, c))

\* C10: parse_csv fails with the validation error naming exactly the required
\* columns absent after trimming, upper-casing and synonym mapping, whatever
\* the rows hold; with all three present it does not fail on this ground.
C10_MissingColumnsNamed ==
    pc \in {"parsed", "rejected"} =>
        IF AbsentFrom(csv) # <<>>
        THEN pc = "rejected"
                 /\ parseError = [type |-> "ValueError", missing |-> AbsentFrom(csv)]
        ELSE parseError.type # "ValueError"

\* a padded lower-case synonym is accepted while another column is missing
C10_Witness ==
    /\ pc = "rejected"
    /\ parseError = [type |-> "ValueError", missing |-> <<"SINR">>]
    /\ csv.hdr["RTWP"] = [name |-> "RTWP_DBM", pad |-> TRUE, lower |-> TRUE]
    /\ csv.hdr["PRB"].name = "PRB_USAGE"

\* C11: in every panel parse_csv returns, no RTWP, SINR or PRB value lies
\* more than 3 standard deviations from the mean of its column in that panel.
C11_WithinThreeSigma ==
    pc = "parsed" =>
        \A c \in Metrics : \A i \in 1..Len(panel.rows) :
            ~ExceedsStd(Col(panel.rows, c), 3, 1)[i]

\* a stability score that is a number of [0, 1]: 1.0, 0.0 or 1/(1 + std/|mean|)
InUnitInterval(score) == score.kind \in {"one", "zero", "ratio"}

\* C12: the stability score of every rolling-correlation series is a number
\* in [0, 1], also for a series whose entries are undefined because a metric
\* is constant.
C12_StabilityInUnitInterval ==
    (corrOutcome = "returned") =>
        /\ \A key \in DOMAIN correlations.correlation_stability :
              InUnitInterval(correlations.correlation_stability[key].stability_score)
        /\ \A k \in DOMAIN correlations.rolling_correlations :
              InUnitInterval(correlations.rolling_correlations[k].stability)

\* a panel of the three KPI columns, nothing missing, that is one row long or
\* holds a metric column with a single value
DegeneratePanel ==
    /\ pc = "framed"
    /\ Metrics \subseteq panel.cols
    /\ \A i \in 1..Len(panel.rows) : \A c \in Metrics : panel.rows[i][c] # NaN
    /\ \/ Len(panel.rows) = 1
       \/ \E c \in Metrics : \A i \in 1..Len(panel.rows) :
              panel.rows[i][c] = panel.rows[1][c]

NumericReport(report) == ~report.mean.nan /\ ~report.std.nan
NumericCoefficients(report) ==
    ("rtwp_sinr_correlation" \in DOMAIN report) =>
        /\ ~report.rtwp_sinr_correlation.nan
        /\ ~report.rtwp_prb_correlation.nan
        /\ ~report.sinr_prb_correlation.nan

\* C13: on a degenerate panel (a constant metric column, or a single row)
\* neither detect_anomalies nor analyze_correlations raises, and the report
\* means and standard deviations, the correlation coefficients and the
\* stability scores they return are numbers, never NaN.
C13_DegenerateStaysNumeric ==
    DegeneratePanel =>
        /\ (anomalies # NotRun) =>
              /\ NumericReport(anomalies.rtwp_anomalies)
              /\ NumericReport(anomalies.sinr_anomalies)
              /\ NumericReport(anomalies.prb_anomalies)
              /\ NumericCoefficients(anomalies.correlation_anomalies)
        /\ corrOutcome \in {"none", "returned"}
        /\ (corrOutcome = "returned") =>
              \A key \in DOMAIN correlations.correlation_stability :
                  correlations.correlation_stability[key].stability_score.kind # "nan"

MetricReports == {"rtwp_anomalies", "sinr_anomalies", "prb_anomalies"}
ReportNames == {"rtwp_anomalies", "sinr_anomalies", "prb_anomalies",
                "correlation_anomalies", "trend_anomalies"}
RECURSIVE CountSum(_, _)
CountSum(results, names) ==
    IF names = {} THEN 0
    ELSE LET name == CHOOSE x \in names : TRUE
         IN  results[name].count + CountSum(results, names \ {name})

\* C18: summary.total_anomalies is the sum of the counts of the five reports,
\* an index counting once in every report that lists it, and severity is
\* high iff the total exceeds 50, medium iff it exceeds 20 and is at most 50,
\* low iff it is at most 20.
C18_TotalAndSeverity ==
    (anomalies # NotRun) =>
        /\ anomalies.summary.total_anomalies = CountSum(anomalies, ReportNames)
        /\ (anomalies.summary.severity = "high")
              <=> (anomalies.summary.total_anomalies > 50)
        /\ (anomalies.summary.severity = "medium")
              <=> (anomalies.summary.total_anomalies > 20
                     /\ anomalies.summary.total_anomalies <= 50)
        /\ (anomalies.summary.severity = "low")
              <=> (anomalies.summary.total_anomalies <= 20)

\* a panel of medium severity in which a sample is listed in two reports and
\* counted in both
C18_Witness ==
    /\ anomalies # NotRun
    /\ anomalies.summary.severity = "medium"
    /\ \E a \in MetricReports : \E b \in MetricReports \ {a} :
          Range(anomalies[a].indices) \cap Range(anomalies[b].indices) # {}

\* the positions of a mask that an earlier mask has not flagged
Fresh(mask, earlier) ==
    Flagged([i \in 1..Len(mask) |-> mask[i] /\ ~earlier[i]])
Either(a, b) == [i \in 1..Len(a) |-> a[i] \/ b[i]]
Nowhere(s) == [i \in 1..Len(s) |-> FALSE]

\* a report lists the statistical detections, then the samples only above the
\* upper bound, then those only below the lower bound, each tagged by its test
FirstOccurrence(report, stat, high, low) ==
    /\ report.indices = Flagged(stat) \o Fresh(high, stat) \o Fresh(low, Either(stat, high))
    /\ report.types = Tags("statistical", Len(Flagged(stat)))
                          \o Tags("high_absolute", Len(Fresh(high, stat)))
                          \o Tags("low_absolute", Len(Fresh(low, Either(stat, high))))
    /\ report.count = Len(report.indices)

\* C19: in a per-metric report an index flagged by the statistical test and by
\* an absolute bound is listed once, tagged statistical, and the indices come
\* in first-occurrence order: statistical, then high_absolute, then
\* low_absolute.
C19_FirstOccurrenceOrder ==
    (anomalies # NotRun) =>
        /\ ("RTWP" \in panel.cols) =>
              FirstOccurrence(anomalies.rtwp_anomalies,
                              ExceedsStd(Col(panel.rows, "RTWP"), 5, 2),
                              Above(Col(panel.rows, "RTWP"), -70),
                              Below(Col(panel.rows, "RTWP"), -120))
        /\ ("SINR" \in panel.cols) =>
              FirstOccurrence(anomalies.sinr_anomalies,
                              ExceedsStd(Col(panel.rows, "SINR"), 2, 1),
                              Nowhere(panel.rows),
                              Below(Col(panel.rows, "SINR"), 0))
        /\ ("PRB" \in panel.cols) =>
              FirstOccurrence(anomalies.prb_anomalies,
                              ExceedsStd(Col(panel.rows, "PRB"), 2, 1),
                              Above(Col(panel.rows, "PRB"), 100),
                              Below(Col(panel.rows, "PRB"), 0))

\* a PRB report that lists a later sample, a statistical outlier lying above
\* 100, once and as statistical, before an earlier sample that only the upper
\* bound flags
C19_Witness ==
    /\ anomalies # NotRun
    /\ "PRB" \in panel.cols
    /\ \E i \in 1..Len(panel.rows) : \E j \in 1..(i - 1) :
          /\ panel.rows[i].PRB > Whole(100)
          /\ panel.rows[j].PRB > Whole(100)
          /\ anomalies.prb_anomalies.indices = <<i - 1, j - 1>>
          /\ anomalies.prb_anomalies.types = <<"statistical", "high_absolute">>

\* the absolute percent change from before to after is below 5 (it counts as
\* 0 when before is 0), for means in whole units
PercentBelow5(before, after) ==
    before = 0 \/ 100 * Abs(after - before) < 5 * Abs(before)

\* C14: a metric whose mean changes by less than 5% is stable whatever the
\* direction; otherwise RTWP is improved iff the after mean is lower (else
\* degraded) and SINR is improved iff the after mean is higher (else
\* degraded); RTWP before -95 and after -90 gives degraded.
C14_DirectionVerdicts ==
    (pc = "assessed") =>
        /\ PercentBelow5(comparison.before_value, comparison.after_value)
              => comparison.improvement = "stable"
        /\ (~PercentBelow5(comparison.before_value, comparison.after_value)
               /\ comparison.metric = "RTWP")
              => comparison.improvement =
                     (IF comparison.after_value < comparison.before_value
                      THEN "improved" ELSE "degraded")
        /\ (~PercentBelow5(comparison.before_value, comparison.after_value)
               /\ comparison.metric = "SINR")
              => comparison.improvement =
                     (IF comparison.after_value > comparison.before_value
                      THEN "improved" ELSE "degraded")
        /\ (comparison.metric = "RTWP" /\ comparison.before_value = -95
               /\ comparison.after_value = -90)
              => comparison.improvement = "degraded"

\* the RTWP mean rising from -95 to -90 has been judged
C14_Witness ==
    /\ pc = "assessed"
    /\ comparison.metric = "RTWP"
    /\ comparison.before_value = -95 /\ comparison.after_value = -90
    /\ comparison.improvement = "degraded"

Healthy(value) == 40 <= value /\ value <= 80

\* C15: for PRB with a change of at least 5%, the verdict is improved iff the
\* after mean lies in [40, 80] and the before mean does not, and degraded iff
\* the before mean lies in [40, 80] and the after mean does not.
C15_PrbBandVerdicts ==
    (pc = "assessed" /\ comparison.metric = "PRB"
        /\ ~PercentBelow5(comparison.before_value, comparison.after_value)) =>
        /\ (comparison.improvement = "improved")
              <=> (Healthy(comparison.after_value) /\ ~Healthy(comparison.before_value))
        /\ (comparison.improvement = "degraded")
              <=> (Healthy(comparison.before_value) /\ ~Healthy(comparison.after_value))

\* C16: the improvement_score of the before/after assessment lies in
\* [0, 100] for every combination of verdicts and every change of the anomaly
\* total.
C16_ScoreInRange ==
    /\ (pc = "scored") =>
          /\ comparison.assessment.improvement_score >= 0
          /\ comparison.assessment.improvement_score <= 100
    /\ (pc = "compared" /\ comparison.response.status = 200) =>
          /\ comparison.response.improvement_assessment.improvement_score >= 0
          /\ comparison.response.improvement_assessment.improvement_score <= 100

\* the request was not turned down for its file names
NamesAccepted ==
    ~(comparison.response.status = 500 /\ comparison.response.detail = "HTTPException")

\* C17: when the before and the after panel are the same, the comparison
\* returns an anomaly total_change of 0, the verdict stable for every metric,
\* an improvement_score of 0 and the level degraded or minimal.
C17_IdenticalPanels ==
    (pc = "compared" /\ comparison.before_file = comparison.after_file /\ NamesAccepted) =>
        /\ comparison.response.status = 200
        /\ comparison.response.anomaly_comparison.total_change = 0
        /\ \A m \in DOMAIN comparison.response.kpi_comparison :
              comparison.response.kpi_comparison[m].improvement = "stable"
        /\ comparison.response.improvement_assessment.improvement_score = 0
        /\ comparison.response.improvement_assessment.improvement_level
              \in {"degraded", "minimal"}

Judged(kpi_comparison, verdict) ==
    Cardinality({m \in DOMAIN kpi_comparison : kpi_comparison[m].improvement = verdict})

\* score = 40 * [fewer anomalies] + 60 * (improved - degraded) / total_metrics,
\* stated without the division; the level follows the score
ScoreAgrees(assessment, kpi_comparison, fewer) ==
    /\ (DOMAIN kpi_comparison # {}) =>
          assessment.improvement_score * Cardinality(DOMAIN kpi_comparison)
              = (IF fewer THEN 40 ELSE 0) * Cardinality(DOMAIN kpi_comparison)
                  + 60 * (Judged(kpi_comparison, "improved")
                             - Judged(kpi_comparison, "degraded"))
    /\ (DOMAIN kpi_comparison = {}) =>
          assessment.improvement_score = (IF fewer THEN 40 ELSE 0)
    /\ assessment.improvement_level =
          (IF assessment.improvement_score >= 80 THEN "significant"
           ELSE IF assessment.improvement_score >= 60 THEN "moderate"
           ELSE IF assessment.improvement_score >= 40 THEN "minimal"
           ELSE "degraded")

\* C20: the improvement score is 40 if the after anomaly total is strictly
\* lower than the before total (0 otherwise) plus 60 x (improved - degraded)
\* / total_metrics; the level is significant for a score >= 80, moderate for
\* >= 60, minimal for >= 40 and degraded otherwise.
C20_ScoreFormula ==
    /\ (pc = "scored") =>
          ScoreAgrees(comparison.assessment,
                      comparison.comparison_results.kpi_comparison,
                      comparison.comparison_results.total_anomalies_change < 0)
    /\ (pc = "compared" /\ comparison.response.status = 200) =>
          ScoreAgrees(comparison.response.improvement_assessment,
                      comparison.response.kpi_comparison,
                      comparison.response.anomaly_comparison.after_total
                          < comparison.response.anomaly_comparison.before_total)

\* two of three metrics improved, none degraded, fewer anomalies: 40 + 40 = 80,
\* significant
C20_Witness ==
    /\ pc = "scored"
    /\ Cardinality(DOMAIN comparison.comparison_results.kpi_comparison) = 3
    /\ Judged(comparison.comparison_results.kpi_comparison, "improved") = 2
    /\ Judged(comparison.comparison_results.kpi_comparison, "degraded") = 0
    /\ comparison.comparison_results.total_anomalies_change < 0
    /\ comparison.assessment.improvement_score = 80
    /\ comparison.assessment.improvement_level = "significant"

\* two coefficients that are the same number
SameCoefficient(r1, r2) ==
    /\ ~r1.nan /\ ~r2.nan
    /\ (r1.C > 0) = (r2.C > 0) /\ (r1.C < 0) = (r2.C < 0)
    /\ ~AbsExceeds(r1, r2) /\ ~AbsExceeds(r2, r1)

\* the coefficient of leader at position t with follower at the later
\* position t + k
LeadCorr(leader, follower, k) ==
    Pearson(Window(leader, 1, Len(leader) - k), Window(follower, k + 1, Len(follower)))

CrossBuilt ==
    /\ corrOutcome = "returned"
    /\ "rtwp_sinr" \in DOMAIN correlations.cross_correlations

\* C21: the coefficient recorded for a positive lag k correlates RTWP at
\* position t with SINR at the later position t + k (RTWP leads), and the one
\* recorded for a negative lag -k correlates SINR at position t with RTWP at
\* the later position t + k (SINR leads).
C21_LagDirection ==
    CrossBuilt =>
        \A lag \in DOMAIN correlations.cross_correlations.rtwp_sinr.lags :
            SameCoefficient(correlations.cross_correlations.rtwp_sinr.lags[lag],
                            IF lag > 0
                            THEN LeadCorr(Col(panel.rows, "RTWP"), Col(panel.rows, "SINR"), lag)
                            ELSE LeadCorr(Col(panel.rows, "SINR"), Col(panel.rows, "RTWP"), -lag))

\* the lags of [-L, L] but 0, L = min(10, floor(n / 4))
LagsOf(n) == ((-Min2(10, n \div 4))..Min2(10, n \div 4)) \ {0}

\* C22: the lags evaluated are the non-zero integers of [-L, L] with
\* L = min(10, floor(n/4)), at most 20 of them; the recorded lags are those
\* with a defined coefficient; best_lag is a recorded lag whose coefficient
\* has the largest absolute value, max_correlation is the coefficient of that
\* lag, and with no defined coefficient there is no cross-correlation entry.
C22_LagsAndBest ==
    (corrOutcome = "returned" /\ {"RTWP", "SINR"} \subseteq panel.cols) =>
        /\ Cardinality(LagsOf(Len(panel.rows))) <= 20
        /\ ("rtwp_sinr" \notin DOMAIN correlations.cross_correlations)
              <=> (\A lag \in LagsOf(Len(panel.rows)) :
                      LagCorr(Col(panel.rows, "RTWP"), Col(panel.rows, "SINR"), lag).nan)
        /\ ("rtwp_sinr" \in DOMAIN correlations.cross_correlations) =>
              /\ DOMAIN correlations.cross_correlations.rtwp_sinr.lags
                    = {lag \in LagsOf(Len(panel.rows)) :
                          ~LagCorr(Col(panel.rows, "RTWP"), Col(panel.rows, "SINR"), lag).nan}
              /\ correlations.cross_correlations.rtwp_sinr.best_lag
                    \in DOMAIN correlations.cross_correlations.rtwp_sinr.lags
              /\ \A lag \in DOMAIN correlations.cross_correlations.rtwp_sinr.lags :
                    ~AbsExceeds(correlations.cross_correlations.rtwp_sinr.lags[lag],
                                correlations.cross_correlations.rtwp_sinr.max_correlation)
              /\ correlations.cross_correlations.rtwp_sinr.max_correlation
                    = correlations.cross_correlations.rtwp_sinr.lags[
                          correlations.cross_correlations.rtwp_sinr.best_lag]

\* a returned analysis of a panel of more than 40 rows: twenty recorded lags,
\* -10 to 10, the best of them not the first one
C22_Witness ==
    /\ corrOutcome = "returned"
    /\ Len(panel.rows) > 40
    /\ "rtwp_sinr" \in DOMAIN correlations.cross_correlations
    /\ DOMAIN correlations.cross_correlations.rtwp_sinr.lags = (-10..10) \ {0}
    /\ correlations.cross_correlations.rtwp_sinr.best_lag # -10

\* the band and sign of a reported coefficient
StrengthOf(r) ==
    IF AbsAtLeast(r, 7, 10) THEN (IF r.C > 0 THEN "strong_positive" ELSE "strong_negative")
    ELSE IF AbsAtLeast(r, 3, 10)
         THEN (IF r.C > 0 THEN "moderate_positive" ELSE "moderate_negative")
    ELSE "weak"

\* C23: for every pair of present metrics, also when one column is constant,
\* the reported strength is one of strong_positive, strong_negative,
\* moderate_positive, moderate_negative, weak, and agrees with the reported
\* coefficient: strong iff |r| >= 0.7, moderate iff 0.3 <= |r| < 0.7, weak
\* otherwise, the sign of r giving the suffix.
C23_StrengthMatchesCoefficient ==
    (corrOutcome = "returned") =>
        \A key \in DOMAIN correlations.pairwise_correlations :
            /\ correlations.pairwise_correlations[key].strength
                  \in {"strong_positive", "strong_negative", "moderate_positive",
                       "moderate_negative", "weak"}
            /\ correlations.pairwise_correlations[key].strength
                  = StrengthOf(correlations.pairwise_correlations[key].correlation)

\* the rolling coefficient at position i is below -0.8 or above 0.8
StrongAt(rc, i) == ~rc[i].nan /\ AbsGreater(rc[i], 8, 10)
\* the positions at which one of two rolling series is strong, and those at
\* which both are
EitherStrong(rc1, rc2) == {i \in 1..Len(rc1) : StrongAt(rc1, i) \/ StrongAt(rc2, i)}
BothStrong(rc1, rc2) == {i \in 1..Len(rc1) : StrongAt(rc1, i) /\ StrongAt(rc2, i)}

\* min(20, floor(n / 4))
WindowOf(n) == Min2(20, n \div 4)

RollingPair(a, b) ==
    RollingCorr(Col(panel.rows, a), Col(panel.rows, b), WindowOf(Len(panel.rows)))

Offsets(s, base) == [i \in 1..Len(s) |-> IF s[i] = NaN THEN NaN ELSE s[i] - base]
\* |mean of d[i-4..i] - mean of d[i-14..i]| * 15
ApartBy(d, i) == Abs(3 * SumSeq(Window(d, i - 4, i)) - SumSeq(Window(d, i - 14, i)))
\* the moving averages over 5 and over 15 rows ending at position i are both
\* defined and differ by more than twice the standard deviation of the
\* column, whose m defined values have sum of squares Q and sum S (offsets):
\* (15 * |ma5 - ma15|)^2 * m * (m - 1) > 900 * (m * Q - S^2)
AveragesApart(d, i, m, Q, S) ==
    /\ i >= 15
    /\ NaN \notin Range(Window(d, i - 14, i))
    /\ m >= 2
    /\ ProdGreater(<<m * (m - 1), ApartBy(d, i), ApartBy(d, i)>>, <<900, m * Q - S * S>>)
ApartPositions(d, v) ==
    {i \in 1..Len(d) : AveragesApart(d, i, Len(v), SumSq(v), SumSeq(v))}
TrendPositions(s) ==
    IF Valid(s) = <<>> THEN {}
    ELSE ApartPositions(Offsets(s, Valid(s)[1]), Valid(Offsets(s, Valid(s)[1])))
TrendExpected ==
    UNION {TrendPositions(Col(panel.rows, c)) : c \in Metrics \cap panel.cols}

\* C25: the trend report has count 0 for a panel of fewer than 10 rows; for a
\* panel of at least 10 rows its flagged set is exactly the positions at which,
\* for some present metric, the window-5 and the window-15 moving averages
\* differ by more than twice that metric's standard deviation, and count is
\* the size of that set.
C25_TrendAnomalySet ==
    (anomalies # NotRun) =>
        IF Len(panel.rows) < 10 THEN anomalies.trend_anomalies.count = 0
        ELSE /\ anomalies.trend_anomalies.indices = {i - 1 : i \in TrendExpected}
             /\ anomalies.trend_anomalies.count = Cardinality(TrendExpected)

\* a panel of at least 15 rows with flagged positions, each counted once
C25_Witness ==
    /\ anomalies # NotRun
    /\ Len(panel.rows) >= 15
    /\ anomalies.trend_anomalies.count > 0
    /\ anomalies.trend_anomalies.count = Cardinality(TrendExpected)

----------------------------------------------------------------------------
(* All-empty input rows                                                    *)

\* an input line whose cells are all empty, over the columns the file has
EmptyLine(file, r) == \A c \in Range(Slots) : file.hdr[c] # NoHeader => r[c] = BLANK
WithoutEmptyLines(file) == SelectSeq(file.rows, LAMBDA r : ~EmptyLine(file, r))

\* the KPI cells of a sequence of rows, in order
KpiCells(rows) == [i \in 1..Len(rows) |-> [c \in Metrics |-> rows[i][c]]]

\* the panel obtained when the all-empty lines are left out first and each
\* column is then median-filled and 3-sigma trimmed
CleanedWithoutEmptyLines(file) ==
    _clean_data(FrameRows(_clean_headers(file.hdr), WithoutEmptyLines(file)))

\* C26: input rows whose cells are all empty never reach the panel, with a
\* time column and with the synthetic 15-minute timestamps alike: the KPI
\* rows of the returned panel are those obtained from the input without its
\* all-empty rows, each column median-filled and then 3-sigma trimmed
C26_EmptyRowsDropped ==
    (pc = "parsed") =>
        /\ Len(panel.rows) <= Len(WithoutEmptyLines(csv))
        /\ KpiCells(panel.rows) = KpiCells(CleanedWithoutEmptyLines(csv).rows)

----------------------------------------------------------------------------
(* Metadata                                                                *)

\* the rows as they stand when imputation starts: time column processed,
\* all-NaN rows dropped, nothing filled yet
BeforeImputation(file) == DropAllNa(FrameRows(_clean_headers(file.hdr), file.rows))
MissingBefore(file, c) == CountNa(Col(BeforeImputation(file), c))

\* C27: the metadata of a parsed file reports for RTWP, SINR and PRB the
\* number of cells of the column that were missing before imputation;
\* total_records is the number of rows of the returned panel and the means
\* are those of the returned panel
C27_MetadataOfPanel ==
    (pc = "parsed") =>
        /\ metadata.data_quality.rtwp_missing = MissingBefore(csv, "RTWP")
        /\ metadata.data_quality.sinr_missing = MissingBefore(csv, "SINR")
        /\ metadata.data_quality.prb_missing = MissingBefore(csv, "PRB")
        /\ metadata.total_records = Len(panel.rows)
        /\ metadata.statistics.rtwp_mean = MeanOf(Col(panel.rows, "RTWP"))
        /\ metadata.statistics.sinr_mean = MeanOf(Col(panel.rows, "SINR"))
        /\ metadata.statistics.prb_mean = MeanOf(Col(panel.rows, "PRB"))

----------------------------------------------------------------------------
(* Baseline deviations                                                     *)

BaselineDeviated == pc = "deviated"

\* the status of a deviation of x / y percent in absolute value, y > 0
StatusOf(x, y) ==
    IF x < 5 * y THEN "within_normal_range"
    ELSE IF x < 15 * y THEN "minor_deviation"
    ELSE IF x < 30 * y THEN "significant_deviation"
    ELSE "major_deviation"

\* a value is there: the key exists and does not hold None
Given(metrics, k) == k \in DOMAIN metrics /\ metrics[k] # NoValue

\* entry e is what the baseline b and the current value c call for
DeviationAsClaimed(e, b, c) ==
    IF FracIsZero(b)
    THEN /\ ~e.deviation_percent.nan /\ e.deviation_percent.num = 0
         /\ e.status = "within_normal_range"
    ELSE IF b.nan \/ c.nan
    THEN e.deviation_percent.nan /\ e.status = "major_deviation"
    ELSE /\ ~e.deviation_percent.nan /\ e.deviation_percent.den # 0
         /\ e.deviation_percent.num * (b.num * c.den)
               = 100 * (c.num * b.den - b.num * c.den) * e.deviation_percent.den
         /\ e.status = StatusOf(100 * Abs(c.num * b.den - b.num * c.den),
                                Abs(b.num * c.den))

\* C28: a metric mean with both a baseline and a current value gets an entry
\* with deviation_percent = (current - baseline) / baseline * 100 (0 for a
\* zero baseline) and the status within_normal_range below 5, minor_deviation
\* below 15, significant_deviation below 30, major_deviation otherwise, the
\* percentage taken in absolute value; a metric whose baseline or current
\* value is absent gets no entry
C28_BaselineDeviations ==
    BaselineDeviated =>
        /\ DOMAIN comparison.deviations =
              {k \in MeanKeys : Given(comparison.baseline_metrics, k)
                                   /\ Given(comparison.current_metrics, k)}
        /\ \A k \in DOMAIN comparison.deviations :
              DeviationAsClaimed(comparison.deviations[k],
                                 comparison.baseline_metrics[k],
                                 comparison.current_metrics[k])

\* a deviation of exactly 5 percent, reported as minor, next to a metric
\* without entry
C28_Witness ==
    /\ BaselineDeviated
    /\ \E k \in DOMAIN comparison.deviations :
          /\ Abs(comparison.deviations[k].deviation_percent.num)
                = 5 * Abs(comparison.deviations[k].deviation_percent.den)
          /\ comparison.deviations[k].status = "minor_deviation"
    /\ DOMAIN comparison.deviations # MeanKeys

----------------------------------------------------------------------------
(* Requests                                                                *)

\* the analyze request was turned down by the checks of name and size
TurnedDown == analysis # NotRun /\ ~(analysis.csv_name /\ analysis.within_limit)

\* the baseline request names an upload without stored analysis
BaselineMissing ==
    /\ pc = "baselined"
    /\ comparison.baseline_upload_id # None
    /\ Found(db, comparison.baseline_upload_id) = <<>>

\* C29: a request turned down for its file name or its size is answered
\* with status 400 and a baseline id without stored analysis with status
\* 404, never with 500; the Normalizer has not been invoked then and no
\* Upload record has been created
C29_RejectionStatus ==
    /\ TurnedDown =>
          /\ analysis.response.status = 400
          /\ ~analysis.parser_called
          /\ db.uploads = <<>>
    /\ BaselineMissing =>
          /\ comparison.response.status = 404
          /\ ~comparison.parser_called

\* an upload record exists for the analyze request
UploadCreated == analysis # NotRun /\ analysis.upload_id # None
UploadStatus == db.uploads[analysis.upload_id].status
ResultStored == Found(db, analysis.upload_id) # <<>>
\* the Normalizer or a later step raised
StepRaised == analysis.raised # "" \/ parse_csv(analysis.file).error # NoError

====
